---- MODULE Spec2Model ----
(***************************************************************************)
(* Tax Monitor Pro, Cloudflare Worker (workers/api/src/index.js): the      *)
(* forms pipeline /forms/intake, /forms/order, /forms/support.             *)
(*                                                                         *)
(* A request is a sequential chain of awaited calls to R2 (object store)   *)
(* and ClickUp (execution tracker).  One action of the model is one        *)
(* awaited external call together with the local code that follows it up   *)
(* to the next awaited call (or to the response).  Requests of different   *)
(* invocations interleave at these calls and share nothing but R2 and      *)
(* ClickUp.                                                                *)
(*                                                                         *)
(* null is modelled as the record Null (documents), the string "null"      *)
(* (strings) or the number 0 (ClickUp task ids, which start at 1).         *)
(***************************************************************************)
EXTENDS Integers, Sequences, FiniteSets, TLC

\* ---------------------------------------------------------------- bounds
MaxProcs == 2
MaxRequests == 2
MaxFaults == 1
MaxTicks == 1
MaxSeqRequests == 4
MaxSeqTicks == 3
MaxInputRequests == 2
MaxOwnerRequests == 3
StartTime == 1000

\* ------------------------------------------------------ program constants
CooldownIntake == 600
MaxPerDayIntake == 3
CooldownOrder == 600
MaxPerDayOrder == 10
CooldownSupport == 120
MaxPerDaySupport == 25
DailyCapRetryAfter == 86400
DefaultRetryAfter == 60
SecondsPerDay == 86400

Procs == 1..MaxProcs
Handlers == {"intake", "order", "support"}

\* --------------------------------------------------------- request inputs
\* Submitted values, as the strings a form carries.
UuidLikeIds == {"E1"}
EventIdInputs == UuidLikeIds \cup {""}
EmailInputs == {"a@x.co"}
ValueInputs == {"v1", "v2"}
TokenInputs == {""}
TickDeltas == {CooldownIntake}

\* crypto.randomUUID(): the n-th id generated; never one a client sent.
randomUUID(n) == <<"G0", "G1", "G2", "G3", "G4", "G5", "G6">>[n + 1]

Null == [null |-> TRUE]

\* String.prototype.trim on the strings of the model's alphabet.
trim(s) ==
  CASE s = " A@X.co " -> "A@X.co"
    [] s = " v1 " -> "v1"
    [] s = " E1 " -> "E1"
    [] s = " " -> ""
    [] OTHER -> s

\* String.prototype.toLowerCase on the strings of the model's alphabet.
toLowerCase(s) ==
  CASE s = "A@X.co" -> "a@x.co"
    [] s = " A@X.co " -> " a@x.co "
    [] OTHER -> s

\* A test that takes any non-empty id as well-formed.
isUuidLike_AnyNonEmpty(v) == trim(v) # ""

isUuidLike(v) == trim(v) \in UuidLikeIds

\* sha256Hex: a digest, injective on the model's inputs.
sha256Hex(input) == "sha256:" \o input

\* An id computed from the email as typed.
accountIdFromEmail_AsTyped(email) == sha256Hex(trim(email))

accountIdFromEmail(email) == sha256Hex(toLowerCase(trim(email)))

dayKeyUTC(t) == t \div SecondsPerDay

\* The payload fields a handler's normalizer reads (get(key) trims).  value
\* is the first name (intake), the product name (order) or the summary
\* (support); second is the last name (intake) or the order type (order);
\* level is the urgency level (intake) or the priority (support).
normalizePayload(h, d) ==
  [primaryEmail |-> trim(d.email), value |-> trim(d.value),
   second |-> IF h = "support" THEN "" ELSE trim(d.second),
   level |-> IF h = "order" THEN "" ELSE trim(d.level),
   orderToken |-> IF h = "intake" THEN "" ELSE trim(d.token)]

\* A validation that stops at the first missing field.
missingFields_FirstOnly(h, d) ==
  LET n == normalizePayload(h, d)
  IN  CASE h = "intake" ->
             IF n.value = "" THEN <<"CRM First Name">>
             ELSE IF n.second = "" THEN <<"CRM Last Name">>
             ELSE IF n.primaryEmail = "" THEN <<"CRM Primary Email">> ELSE <<>>
        [] h = "order" ->
             IF n.primaryEmail = "" THEN <<"CRM Primary Email">>
             ELSE IF n.value = "" /\ n.second = "" THEN <<"Product Name">> ELSE <<>>
        [] OTHER ->
             IF n.primaryEmail = "" THEN <<"CF_Support Email">>
             ELSE IF n.value = "" THEN <<"Summary">> ELSE <<>>

\* missing: the labels pushed, in the order of the pushes (lines 117-120,
\* 143-145, 168-170).
missingFields(h, d) ==
  LET n == normalizePayload(h, d)
      push(cond, label) == IF cond THEN <<label>> ELSE <<>>
  IN  CASE h = "intake" ->
             push(n.value = "", "CRM First Name") \o
             push(n.second = "", "CRM Last Name") \o
             push(n.primaryEmail = "", "CRM Primary Email")
        [] h = "order" ->
             push(n.primaryEmail = "", "CRM Primary Email") \o
             push(n.value = "" /\ n.second = "", "Product Name")
        [] OTHER ->
             push(n.primaryEmail = "", "CF_Support Email") \o
             push(n.value = "", "Summary")

cooldownSeconds(h) ==
  CASE h = "intake" -> CooldownIntake
    [] h = "order" -> CooldownOrder
    [] OTHER -> CooldownSupport

maxPerDay(h) ==
  CASE h = "intake" -> MaxPerDayIntake
    [] h = "order" -> MaxPerDayOrder
    [] OTHER -> MaxPerDaySupport

\* ----------------------------------------------------------------- state
VARIABLES
  now,        \* the clock, in seconds
  ticks,      \* how often the clock advanced
  env,        \* the Worker's bindings: which ClickUp settings are present
  R2,         \* the bucket: key -> JSON document
  tasks,      \* ClickUp: the tasks created, in order; a task's id is its index
  comments,   \* ClickUp: the comments added, as <<taskId, eventId>>
  fields,     \* ClickUp: the custom fields set, as <<taskId, field, value>>
  pc,         \* each invocation's position
  loc,        \* each invocation's local variables
  resp,       \* each invocation's response
  faults,     \* how many external calls have failed
  started,    \* how many requests have arrived
  overlapped, \* history: the event ids two invocations carried at once
  cuCalls,    \* history: how many requests were sent to ClickUp
  canonLog,   \* history: the canonical writes done, as <<eventId, request, kind>>
  admitted    \* history: the submissions the throttle let through, as
              \* <<scope, email hash, time, request>>

vars == <<now, ticks, env, R2, tasks, comments, fields, pc, loc, resp, faults,
          started, overlapped, cuCalls, canonLog, admitted>>

\* ------------------------------------------------------------- R2, ClickUp
receiptKey(e) == <<"receipts/form", e>>
accountKey(a) == <<"accounts", a>>
orderKey(o) == <<"orders", o>>
supportKey(s) == <<"support", s>>
\* A throttle key without the scope.
throttleKey_NoScope(h, email) == <<"rate", "form", sha256Hex(toLowerCase(trim(email)))>>

throttleKey(h, email) == <<"rate", h, sha256Hex(toLowerCase(trim(email)))>>

readJsonR2(bucket, key) == IF key \in DOMAIN bucket THEN bucket[key] ELSE Null

\* A put that empties the bucket of every other object of the key's prefix.
writeJsonR2_ClearsPrefix(bucket, key, value) ==
  [k \in {j \in DOMAIN bucket : j[1] # key[1]} \cup {key} |->
     IF k = key THEN value ELSE bucket[k]]

writeJsonR2(bucket, key, value) ==
  [k \in DOMAIN bucket \cup {key} |-> IF k = key THEN value ELSE bucket[k]]

EnvConfigs ==
  { [apiKey |-> TRUE, accountsList |-> TRUE, ordersList |-> TRUE, supportList |-> TRUE],
    [apiKey |-> FALSE, accountsList |-> FALSE, ordersList |-> FALSE, supportList |-> FALSE] }

NoResp == [status |-> 0, ok |-> FALSE, idempotent |-> FALSE, eventId |-> "",
           error |-> "null", retryAfter |-> 0, missing |-> <<>>]

NoLoc ==
  [req |-> 0, h |-> "none", data |-> Null, eventId |-> "", normalized |-> Null,
   accountId |-> "", orderId |-> "", nextState |-> Null, receipt |-> Null,
   account |-> Null, doc |-> Null, accountTaskId |-> 0, createdId |-> 0,
   taskId |-> 0, err |-> "null", calls |-> 0, preWritten |-> FALSE,
   sawFailed |-> FALSE]

InFlight(p) == pc[p] \notin {"idle", "done"}

\* jsonResponse(...) returned by invocation p: the invocation ends and its
\* local variables are gone.
Respond(p, r) ==
  /\ pc' = [pc EXCEPT ![p] = "done"]
  /\ resp' = [resp EXCEPT ![p] = r]
  /\ loc' = [loc EXCEPT ![p] = NoLoc]

Goto(p, label) ==
  /\ pc' = [pc EXCEPT ![p] = label]
  /\ UNCHANGED resp

\* ------------------------------------------------------------------ clock
\* The clock advances between requests, a cooldown at a time: an invocation
\* lasts seconds (the platform's request deadline bounds it).
Advance(d) ==
  /\ \A p \in Procs : ~InFlight(p)
  /\ ticks' = ticks + 1
  /\ now' = now + d
  /\ UNCHANGED <<env, R2, tasks, comments, fields, pc, loc, resp, faults, started,
                 overlapped, cuCalls, canonLog, admitted>>

Tick(d) ==
  /\ started < MaxRequests
  /\ ticks < MaxTicks
  /\ Advance(d)

\* -------------------------------------------------- arrival of a request
\* handleForms*: parse the body, normalize, reject missing fields, choose the
\* event id (lines 540-552, 668-680, 819-831).
Arrive(p, h, d) ==
  /\ ~InFlight(p)
  /\ started' = started + 1
  /\ LET missing == missingFields(h, d)
         gen == ~isUuidLike(d.eventId)
         eventId == IF gen THEN randomUUID(started + 1) ELSE trim(d.eventId)
     IN  IF missing # <<>>
         THEN /\ Respond(p, [NoResp EXCEPT !.status = 400,
                                           !.error = "Missing required fields",
                                           !.missing = missing])
              /\ UNCHANGED overlapped
         ELSE /\ pc' = [pc EXCEPT ![p] = "readReceipt"]
              /\ resp' = [resp EXCEPT ![p] = NoResp]
              /\ loc' = [loc EXCEPT ![p] =
                           [NoLoc EXCEPT !.req = started + 1, !.h = h, !.data = d,
                                         !.eventId = eventId,
                                         !.normalized = normalizePayload(h, d)]]
              /\ overlapped' =
                   IF \E q \in Procs \ {p} : InFlight(q) /\ loc[q].eventId = eventId
                   THEN overlapped \cup {eventId} ELSE overlapped
  /\ UNCHANGED <<now, ticks, env, R2, tasks, comments, fields, faults, cuCalls, canonLog, admitted>>

\* A request arrives while others may be in flight.  The invocations are
\* interchangeable (the lowest free one takes the request) and so are the
\* submitted values (the first request carries v1).
Receive(p, h, d) ==
  /\ \A q \in Procs : q < p => InFlight(q)
  /\ started < MaxRequests
  /\ started = 0 => d.value = "v1"
  /\ Arrive(p, h, d)

\* ---------------------------------------------------- idempotency gate
\* A gate that never short-circuits.
alreadyProcessed_Never(existingReceipt) == FALSE

\* A gate that short-circuits on any stored receipt.
alreadyProcessed_AnyReceipt(existingReceipt) == existingReceipt # Null

\* existingReceipt && existingReceipt.processed === true (lines 555, 683, 834).
alreadyProcessed(existingReceipt) ==
  existingReceipt # Null /\ existingReceipt.processed = TRUE

\* A handler that asks the throttle before it looks at the receipt: a
\* recorded submission of the email in this scope sends the request away.
ReadReceipt_ThrottleFirst(p) ==
  /\ pc[p] = "readReceipt"
  /\ LET existingReceipt == readJsonR2(R2, receiptKey(loc[p].eventId))
         existing == readJsonR2(R2, throttleKey(loc[p].h, loc[p].normalized.primaryEmail))
     IN  IF existing # Null /\ now - existing.lastAt < cooldownSeconds(loc[p].h)
         THEN Respond(p, [NoResp EXCEPT !.status = 429,
                                        !.error = "Please wait before submitting again."])
         ELSE IF alreadyProcessed(existingReceipt)
         THEN Respond(p, [NoResp EXCEPT !.status = 200, !.ok = TRUE, !.idempotent = TRUE,
                                        !.eventId = loc[p].eventId])
         ELSE /\ Goto(p, "throttleRead")
              /\ loc' = [loc EXCEPT ![p].sawFailed =
                           existingReceipt # Null /\ existingReceipt.processingError # "null"]
  /\ UNCHANGED <<now, ticks, env, R2, tasks, comments, fields, faults, started,
                 overlapped, cuCalls, canonLog, admitted>>

\* A gate that short-circuits only on a receipt of the handler's own form.
ReadReceipt_OwnFormOnly(p) ==
  /\ pc[p] = "readReceipt"
  /\ LET existingReceipt == readJsonR2(R2, receiptKey(loc[p].eventId))
     IN  IF alreadyProcessed(existingReceipt) /\ existingReceipt.type = loc[p].h
         THEN Respond(p, [NoResp EXCEPT !.status = 200, !.ok = TRUE, !.idempotent = TRUE,
                                        !.eventId = loc[p].eventId])
         ELSE /\ Goto(p, "throttleRead")
              /\ loc' = [loc EXCEPT ![p].sawFailed =
                           existingReceipt # Null /\ existingReceipt.processingError # "null"]
  /\ UNCHANGED <<now, ticks, env, R2, tasks, comments, fields, faults, started,
                 overlapped, cuCalls, canonLog, admitted>>

\* readJsonR2(receiptKey) and the short-circuit (lines 554-557, 682-685, 833-835).
ReadReceipt(p) ==
  /\ pc[p] = "readReceipt"
  /\ LET existingReceipt == readJsonR2(R2, receiptKey(loc[p].eventId))
     IN  IF alreadyProcessed(existingReceipt)
         THEN Respond(p, [NoResp EXCEPT !.status = 200, !.ok = TRUE, !.idempotent = TRUE,
                                        !.eventId = loc[p].eventId])
         ELSE /\ Goto(p, "throttleRead")
              /\ loc' = [loc EXCEPT ![p].sawFailed =
                           existingReceipt # Null /\ existingReceipt.processingError # "null"]
  /\ UNCHANGED <<now, ticks, env, R2, tasks, comments, fields, faults, started,
                 overlapped, cuCalls, canonLog, admitted>>

\* --------------------------------------------------------------- throttle
\* A throttle that also rejects a submission arriving exactly one cooldown
\* after the last.
throttleVerdict_OffByOne(existing, t, cooldown, cap) ==
  LET lastAt == IF existing # Null THEN existing.lastAt ELSE 0
      sameDay == existing # Null /\ existing.dayKey = dayKeyUTC(t)
      countToday == IF sameDay THEN existing.countToday ELSE 0
      tooSoon == lastAt # 0 /\ (t - lastAt) <= cooldown
  IN  IF countToday >= cap
      THEN [ok |-> FALSE, error |-> "Daily submission limit reached for this email.",
            retryAfterSeconds |-> DailyCapRetryAfter, nextState |-> Null]
      ELSE IF tooSoon
      THEN [ok |-> FALSE, error |-> "Please wait before submitting again.",
            retryAfterSeconds |-> cooldown - (t - lastAt), nextState |-> Null]
      ELSE [ok |-> TRUE, error |-> "null", retryAfterSeconds |-> 0,
            nextState |-> [countToday |-> countToday + 1, dayKey |-> dayKeyUTC(t),
                           lastAt |-> t]]

\* A throttle that checks the cooldown before the daily cap.
throttleVerdict_CooldownFirst(existing, t, cooldown, cap) ==
  LET lastAt == IF existing # Null THEN existing.lastAt ELSE 0
      sameDay == existing # Null /\ existing.dayKey = dayKeyUTC(t)
      countToday == IF sameDay THEN existing.countToday ELSE 0
      tooSoon == lastAt # 0 /\ (t - lastAt) < cooldown
  IN  IF tooSoon
      THEN [ok |-> FALSE, error |-> "Please wait before submitting again.",
            retryAfterSeconds |-> cooldown - (t - lastAt), nextState |-> Null]
      ELSE IF countToday >= cap
      THEN [ok |-> FALSE, error |-> "Daily submission limit reached for this email.",
            retryAfterSeconds |-> DailyCapRetryAfter, nextState |-> Null]
      ELSE [ok |-> TRUE, error |-> "null", retryAfterSeconds |-> 0,
            nextState |-> [countToday |-> countToday + 1, dayKey |-> dayKeyUTC(t),
                           lastAt |-> t]]

\* A throttle that lets one submission more than the cap through.
throttleVerdict_CapOffByOne(existing, t, cooldown, cap) ==
  LET lastAt == IF existing # Null THEN existing.lastAt ELSE 0
      sameDay == existing # Null /\ existing.dayKey = dayKeyUTC(t)
      countToday == IF sameDay THEN existing.countToday ELSE 0
      tooSoon == lastAt # 0 /\ (t - lastAt) < cooldown
  IN  IF countToday > cap
      THEN [ok |-> FALSE, error |-> "Daily submission limit reached for this email.",
            retryAfterSeconds |-> DailyCapRetryAfter, nextState |-> Null]
      ELSE IF tooSoon
      THEN [ok |-> FALSE, error |-> "Please wait before submitting again.",
            retryAfterSeconds |-> cooldown - (t - lastAt), nextState |-> Null]
      ELSE [ok |-> TRUE, error |-> "null", retryAfterSeconds |-> 0,
            nextState |-> [countToday |-> countToday + 1, dayKey |-> dayKeyUTC(t),
                           lastAt |-> t]]

\* A throttle that keeps counting across the day boundary.
throttleVerdict_NoDayReset(existing, t, cooldown, cap) ==
  LET lastAt == IF existing # Null THEN existing.lastAt ELSE 0
      countToday == IF existing # Null THEN existing.countToday ELSE 0
      tooSoon == lastAt # 0 /\ (t - lastAt) < cooldown
  IN  IF countToday >= cap
      THEN [ok |-> FALSE, error |-> "Daily submission limit reached for this email.",
            retryAfterSeconds |-> DailyCapRetryAfter, nextState |-> Null]
      ELSE IF tooSoon
      THEN [ok |-> FALSE, error |-> "Please wait before submitting again.",
            retryAfterSeconds |-> cooldown - (t - lastAt), nextState |-> Null]
      ELSE [ok |-> TRUE, error |-> "null", retryAfterSeconds |-> 0,
            nextState |-> [countToday |-> countToday + 1, dayKey |-> dayKeyUTC(t),
                           lastAt |-> t]]

\* enforceEmailThrottle after its read (lines 229-261): the verdict and the
\* state it would write.
throttleVerdict(existing, t, cooldown, cap) ==
  LET lastAt == IF existing # Null THEN existing.lastAt ELSE 0
      sameDay == existing # Null /\ existing.dayKey = dayKeyUTC(t)
      countToday == IF sameDay THEN existing.countToday ELSE 0
      \* Infinity when there is no lastAt
      tooSoon == lastAt # 0 /\ (t - lastAt) < cooldown
  IN  IF countToday >= cap
      THEN [ok |-> FALSE, error |-> "Daily submission limit reached for this email.",
            retryAfterSeconds |-> DailyCapRetryAfter, nextState |-> Null]
      ELSE IF tooSoon
      THEN [ok |-> FALSE, error |-> "Please wait before submitting again.",
            retryAfterSeconds |-> cooldown - (t - lastAt), nextState |-> Null]
      ELSE [ok |-> TRUE, error |-> "null", retryAfterSeconds |-> 0,
            nextState |-> [countToday |-> countToday + 1, dayKey |-> dayKeyUTC(t),
                           lastAt |-> t]]

\* A handler that always answers with the default hint.
retryAfterHeader_Default(throttle) == DefaultRetryAfter

\* "Retry-After": String(throttle.retryAfterSeconds || 60) (lines 570, 696, 847).
retryAfterHeader(throttle) ==
  IF throttle.retryAfterSeconds = 0 THEN DefaultRetryAfter ELSE throttle.retryAfterSeconds

\* A throttle that counts a rejected attempt.
ThrottleRead_CountsRejection(p) ==
  /\ pc[p] = "throttleRead"
  /\ LET h == loc[p].h
         key == throttleKey(h, loc[p].normalized.primaryEmail)
         existing == readJsonR2(R2, key)
         v == throttleVerdict(existing, now, cooldownSeconds(h), maxPerDay(h))
     IN  IF v.ok
         THEN /\ Goto(p, "throttleWrite")
              /\ loc' = [loc EXCEPT ![p].nextState = v.nextState]
              /\ UNCHANGED R2
         ELSE /\ Respond(p, [NoResp EXCEPT !.status = 429, !.error = v.error,
                                           !.retryAfter = retryAfterHeader(v)])
              /\ R2' = writeJsonR2(R2, key, [existing EXCEPT !.countToday = @ + 1])
  /\ UNCHANGED <<now, ticks, env, tasks, comments, fields, faults, started, overlapped, cuCalls, canonLog, admitted>>

\* enforceEmailThrottle up to its write (lines 213-257), and the 429 of the
\* handler (lines 565-573, 693-698, 844-849).
ThrottleRead(p) ==
  /\ pc[p] = "throttleRead"
  /\ LET h == loc[p].h
         existing == readJsonR2(R2, throttleKey(h, loc[p].normalized.primaryEmail))
         v == throttleVerdict(existing, now, cooldownSeconds(h), maxPerDay(h))
     IN  IF v.ok
         THEN /\ Goto(p, "throttleWrite")
              /\ loc' = [loc EXCEPT ![p].nextState = v.nextState]
         ELSE /\ Respond(p, [NoResp EXCEPT !.status = 429, !.error = v.error,
                                           !.retryAfter = retryAfterHeader(v)])
  /\ UNCHANGED <<now, ticks, env, R2, tasks, comments, fields, faults, started, overlapped, cuCalls, canonLog, admitted>>

\* The receipt a handler builds before its pre-write (lines 578-588, 706-716,
\* 857-867).
newReceipt(l, accountId) ==
  [accountId |-> accountId, eventId |-> l.eventId, source |-> "form", type |-> l.h,
   rawPayload |-> [l.data EXCEPT !.eventId = l.eventId],
   normalizedPayload |-> l.normalized,
   processed |-> FALSE, processingError |-> "null", clickUpTaskId |-> 0]

\* A throttle that counts on the state stored at the time of its write.
ThrottleWrite_Recounts(p) ==
  /\ pc[p] = "throttleWrite"
  /\ LET l == loc[p]
         accountId == accountIdFromEmail(l.normalized.primaryEmail)
         key == throttleKey(l.h, l.normalized.primaryEmail)
         stored == readJsonR2(R2, key)
         count == IF stored # Null /\ stored.dayKey = l.nextState.dayKey
                  THEN stored.countToday ELSE 0
     IN  /\ R2' = writeJsonR2(R2, key, [l.nextState EXCEPT !.countToday = count + 1])
         /\ loc' = [loc EXCEPT ![p].accountId = accountId,
                               ![p].orderId =
                                  CASE l.h = "order" ->
                                         IF l.normalized.orderToken # ""
                                         THEN l.normalized.orderToken ELSE l.eventId
                                    [] l.h = "support" -> l.eventId
                                    [] OTHER -> "",
                               ![p].receipt = newReceipt(l, accountId)]
  /\ Goto(p, "preWrite")
  /\ UNCHANGED <<now, ticks, env, tasks, comments, fields, faults, started, overlapped, cuCalls, canonLog>>
  /\ admitted' = admitted \cup
       {<<loc[p].h, sha256Hex(toLowerCase(trim(loc[p].normalized.primaryEmail))),
          now, loc[p].req>>}

\* writeJsonR2(throttleKey, nextState) (line 259), then the ids and the receipt
\* of the handler (lines 575-588, 700-716, 851-867).
ThrottleWrite(p) ==
  /\ pc[p] = "throttleWrite"
  /\ LET l == loc[p]
         accountId == accountIdFromEmail(l.normalized.primaryEmail)
     IN  /\ R2' = writeJsonR2(R2, throttleKey(l.h, l.normalized.primaryEmail), l.nextState)
         /\ loc' = [loc EXCEPT ![p].accountId = accountId,
                               ![p].orderId =
                                  CASE l.h = "order" ->
                                         IF l.normalized.orderToken # ""
                                         THEN l.normalized.orderToken ELSE l.eventId
                                    [] l.h = "support" -> l.eventId
                                    [] OTHER -> "",
                               ![p].receipt = newReceipt(l, accountId)]
  /\ Goto(p, "preWrite")
  /\ UNCHANGED <<now, ticks, env, tasks, comments, fields, faults, started, overlapped, cuCalls, canonLog>>
  /\ admitted' = admitted \cup
       {<<loc[p].h, sha256Hex(toLowerCase(trim(loc[p].normalized.primaryEmail))),
          now, loc[p].req>>}

\* ------------------------------------------------------------- pre-write
\* await writeJsonR2(env, receiptKey, receipt) (lines 590, 718, 869).
PreWrite(p) ==
  /\ pc[p] = "preWrite"
  /\ R2' = writeJsonR2(R2, receiptKey(loc[p].eventId), loc[p].receipt)
  /\ loc' = [loc EXCEPT ![p].preWritten = TRUE]
  /\ Goto(p, "readAccount")
  /\ UNCHANGED <<now, ticks, env, tasks, comments, fields, faults, started, overlapped, cuCalls, canonLog, admitted>>

\* ------------------------------------------------------ canonical upsert
\* An intake that builds the account from its own fields alone.
intakeAccount_Replaces(l, existingAccount) ==
  [accountId |-> l.accountId,
   activeOrders |-> <<>>,
   firstName |-> l.normalized.value,
   lastName |-> l.normalized.second,
   lifecycleState |-> "intake_submitted",
   metadata |-> [urgencyLevel |-> l.normalized.level],
   primaryEmail |-> l.normalized.primaryEmail,
   stripeCustomerId |-> "null",
   clickUp |-> [accountTaskId |-> 0]]

\* The account an intake builds over the existing one (lines 595-617).
\* urgencyLevel stands for the fields of metadata.
intakeAccount(l, existingAccount) ==
  [accountId |-> l.accountId,
   activeOrders |-> IF existingAccount # Null THEN existingAccount.activeOrders ELSE <<>>,
   firstName |-> l.normalized.value,
   lastName |-> l.normalized.second,
   lifecycleState |-> "intake_submitted",
   metadata |-> [urgencyLevel |-> l.normalized.level],
   primaryEmail |-> l.normalized.primaryEmail,
   stripeCustomerId |-> IF existingAccount # Null THEN existingAccount.stripeCustomerId
                        ELSE "null",
   clickUp |-> IF existingAccount # Null THEN existingAccount.clickUp
               ELSE [accountTaskId |-> 0]]

\* x || null on a string.
orNull(x) == IF x = "" THEN "null" ELSE x

\* The order document (lines 726-734).
newOrder(l, t) ==
  [accountId |-> l.accountId, createdAt |-> t, orderId |-> l.orderId,
   orderType |-> orNull(l.normalized.second),
   productName |-> orNull(l.normalized.value), status |-> "order_submitted"]

\* The support document (lines 877-886).
newSupport(l, t) ==
  [accountId |-> l.accountId, createdAt |-> t, supportId |-> l.orderId,
   orderToken |-> orNull(l.normalized.orderToken),
   priority |-> orNull(l.normalized.level),
   summary |-> orNull(l.normalized.value), status |-> "support_submitted"]

\* An order handler that leaves the account's list as it is.
addOrder_NotListed(activeOrders, orderId) == activeOrders

\* An order handler that lists its own order alone.
addOrder_OwnOnly(activeOrders, orderId) == <<orderId>>

\* Array.from(new Set([...activeOrders, orderId])) (lines 740-742).
addOrder(activeOrders, orderId) ==
  IF \E i \in 1..Len(activeOrders) : activeOrders[i] = orderId
  THEN activeOrders ELSE Append(activeOrders, orderId)

\* ensureClickUpAccountTask up to its first awaited call (lines 381-386): where
\* the handler goes next, and the account task id it already has.
afterEnsure(h, e) ==
  CASE h = "order" /\ e.ordersList -> "createTask"
    [] h = "support" /\ e.supportList -> "createTask"
    [] OTHER -> "postWrite"

ensureEntry(h, e, account) ==
  IF account.clickUp.accountTaskId # 0
  THEN [pc |-> afterEnsure(h, e), accountTaskId |-> account.clickUp.accountTaskId]
  ELSE IF ~e.apiKey \/ ~e.accountsList
  THEN [pc |-> afterEnsure(h, e), accountTaskId |-> 0]
  ELSE [pc |-> "createAccountTask", accountTaskId |-> 0]

\* The guard of the projection (lines 622, 750, 895).
projection(h, e, account) ==
  IF (h = "intake" /\ e.apiKey /\ e.accountsList) \/ (h # "intake" /\ e.apiKey)
  THEN ensureEntry(h, e, account)
  ELSE [pc |-> "postWrite", accountTaskId |-> 0]

\* A handler that goes from its account read straight to the projection.
ReadAccount_ProjectionFirst(p) ==
  /\ pc[p] = "readAccount"
  /\ LET l == loc[p]
         existingAccount == readJsonR2(R2, accountKey(l.accountId))
         account == IF l.h = "intake" THEN intakeAccount(l, existingAccount)
                    ELSE existingAccount
     IN  IF account = Null
         THEN /\ loc' = [loc EXCEPT ![p].err = "Account not found for email."]
              /\ Goto(p, "catch")
         ELSE LET nxt == projection(l.h, env, account)
              IN  /\ loc' = [loc EXCEPT ![p].account = account,
                                        ![p].accountTaskId = nxt.accountTaskId]
                  /\ Goto(p, nxt.pc)
  /\ UNCHANGED <<now, ticks, env, R2, tasks, comments, fields, faults, started, overlapped, cuCalls, canonLog, admitted>>

\* An order or support handler that makes up the account it does not find.
ReadAccount_MakesAccount(p) ==
  /\ pc[p] = "readAccount"
  /\ LET l == loc[p]
         existingAccount == readJsonR2(R2, accountKey(l.accountId))
         account == IF existingAccount = Null THEN intakeAccount(l, Null)
                    ELSE existingAccount
     IN  CASE l.h = "intake" ->
                /\ loc' = [loc EXCEPT ![p].account = intakeAccount(l, existingAccount)]
                /\ Goto(p, "writeAccount")
           [] l.h = "order" ->
                /\ loc' = [loc EXCEPT ![p].account = account,
                                      ![p].doc = newOrder(l, now)]
                /\ Goto(p, "writeOrder")
           [] l.h = "support" ->
                /\ loc' = [loc EXCEPT ![p].account = account,
                                      ![p].doc = newSupport(l, now)]
                /\ Goto(p, "writeSupport")
  /\ UNCHANGED <<now, ticks, env, R2, tasks, comments, fields, faults, started, overlapped, cuCalls, canonLog, admitted>>

\* const existingAccount = await readJsonR2(env, accountKey) and what is built
\* from it (lines 593-617, 721-734, 872-886).
ReadAccount(p) ==
  /\ pc[p] = "readAccount"
  /\ LET l == loc[p]
         existingAccount == readJsonR2(R2, accountKey(l.accountId))
     IN  CASE l.h = "intake" ->
                /\ loc' = [loc EXCEPT ![p].account = intakeAccount(l, existingAccount)]
                /\ Goto(p, "writeAccount")
           [] l.h # "intake" /\ existingAccount = Null ->
                /\ loc' = [loc EXCEPT ![p].err = "Account not found for email."]
                /\ Goto(p, "catch")
           [] l.h = "order" /\ existingAccount # Null ->
                /\ loc' = [loc EXCEPT ![p].account = existingAccount,
                                      ![p].doc = newOrder(l, now)]
                /\ Goto(p, "writeOrder")
           [] l.h = "support" /\ existingAccount # Null ->
                /\ loc' = [loc EXCEPT ![p].account = existingAccount,
                                      ![p].doc = newSupport(l, now)]
                /\ Goto(p, "writeSupport")
  /\ UNCHANGED <<now, ticks, env, R2, tasks, comments, fields, faults, started, overlapped, cuCalls, canonLog, admitted>>

\* An order handler that builds the account anew around its order.
WriteOrder_RebuildsAccount(p) ==
  /\ pc[p] = "writeOrder"
  /\ LET l == loc[p]
     IN  /\ R2' = writeJsonR2(R2, orderKey(l.orderId), l.doc)
         /\ loc' = [loc EXCEPT ![p].account =
                           [@ EXCEPT !.activeOrders = addOrder(@, l.orderId),
                                     !.firstName = "", !.lastName = "",
                                     !.metadata = [urgencyLevel |-> ""]]]
  /\ Goto(p, "writeAccount")
  /\ canonLog' = canonLog \cup {<<loc[p].eventId, loc[p].req, "order">>}
  /\ UNCHANGED <<now, ticks, env, tasks, comments, fields, faults, started, overlapped, cuCalls, admitted>>

\* await writeJsonR2(env, orderKey, order) and the account built after it
\* (lines 736-743).
WriteOrder(p) ==
  /\ pc[p] = "writeOrder"
  /\ LET l == loc[p]
     IN  /\ R2' = writeJsonR2(R2, orderKey(l.orderId), l.doc)
         /\ loc' = [loc EXCEPT ![p].account =
                           [@ EXCEPT !.activeOrders = addOrder(@, l.orderId)]]
  /\ Goto(p, "writeAccount")
  /\ canonLog' = canonLog \cup {<<loc[p].eventId, loc[p].req, "order">>}
  /\ UNCHANGED <<now, ticks, env, tasks, comments, fields, faults, started, overlapped, cuCalls, admitted>>

\* await writeJsonR2(env, accountKey, account) (lines 619, 745).
WriteAccount(p) ==
  /\ pc[p] = "writeAccount"
  /\ LET l == loc[p]
         nxt == projection(l.h, env, l.account)
     IN  /\ R2' = writeJsonR2(R2, accountKey(l.accountId), l.account)
         /\ loc' = [loc EXCEPT ![p].accountTaskId = nxt.accountTaskId]
         /\ Goto(p, nxt.pc)
  /\ canonLog' = canonLog \cup {<<loc[p].eventId, loc[p].req, "account">>}
  /\ UNCHANGED <<now, ticks, env, tasks, comments, fields, faults, started, overlapped, cuCalls, admitted>>

\* await writeJsonR2(env, supportKey, support) (line 888).
WriteSupport(p) ==
  /\ pc[p] = "writeSupport"
  /\ LET l == loc[p]
         nxt == projection(l.h, env, l.account)
     IN  /\ R2' = writeJsonR2(R2, supportKey(l.orderId), l.doc)
         /\ loc' = [loc EXCEPT ![p].accountTaskId = nxt.accountTaskId]
         /\ Goto(p, nxt.pc)
  /\ canonLog' = canonLog \cup {<<loc[p].eventId, loc[p].req, "support">>}
  /\ UNCHANGED <<now, ticks, env, tasks, comments, fields, faults, started, overlapped, cuCalls, admitted>>

\* ------------------------------------------------------------- projection
\* The cross-reference a created task carries in its description: the ledger
\* key and the canonical keys (lines 346-348, 426-429, 465-468).
taskFor(l, list) ==
  [list |-> list, eventId |-> l.eventId, req |-> l.req,
   keys |-> {receiptKey(l.eventId), accountKey(l.accountId)} \cup
            (CASE list = "orders" -> {orderKey(l.orderId)}
               [] list = "support" -> {supportKey(l.orderId)}
               [] OTHER -> {})]

\* createClickUpAccountTask (lines 334-378), called at line 386.
CreateAccountTask(p) ==
  /\ pc[p] = "createAccountTask"
  /\ tasks' = Append(tasks, taskFor(loc[p], "accounts"))
  /\ loc' = [loc EXCEPT ![p].createdId = Len(tasks) + 1, ![p].calls = @ + 1]
  /\ Goto(p, "accountComment")
  /\ cuCalls' = cuCalls + 1
  /\ UNCHANGED <<now, ticks, env, R2, comments, fields, faults, started, overlapped, canonLog, admitted>>

\* addClickUpComment(env, createdId, comment) (lines 388-396).
AccountComment(p) ==
  /\ pc[p] = "accountComment"
  /\ comments' = comments \cup {<<loc[p].createdId, loc[p].eventId>>}
  /\ loc' = [loc EXCEPT ![p].calls = @ + 1]
  /\ Goto(p, "patchAccount")
  /\ cuCalls' = cuCalls + 1
  /\ UNCHANGED <<now, ticks, env, R2, tasks, fields, faults, started, overlapped, canonLog, admitted>>

\* writeJsonR2(env, accountKey, patched) and the return (lines 398-408).
PatchAccount(p) ==
  /\ pc[p] = "patchAccount"
  /\ LET l == loc[p]
         patched == [l.account EXCEPT !.clickUp = [@ EXCEPT !.accountTaskId = l.createdId]]
     IN  /\ R2' = writeJsonR2(R2, accountKey(l.accountId), patched)
         /\ loc' = [loc EXCEPT ![p].accountTaskId = l.createdId]
         /\ Goto(p, afterEnsure(l.h, env))
  /\ UNCHANGED <<now, ticks, env, tasks, comments, fields, faults, started, overlapped, cuCalls, canonLog, admitted>>

\* createClickUpOrderTask / createClickUpSupportTask (lines 411-486), called at
\* lines 754, 899.
CreateTask(p) ==
  /\ pc[p] = "createTask"
  /\ tasks' = Append(tasks, taskFor(loc[p], IF loc[p].h = "order" THEN "orders" ELSE "support"))
  /\ loc' = [loc EXCEPT ![p].taskId = Len(tasks) + 1, ![p].calls = @ + 1]
  /\ Goto(p, "taskComment")
  /\ cuCalls' = cuCalls + 1
  /\ UNCHANGED <<now, ticks, env, R2, comments, fields, faults, started, overlapped, canonLog, admitted>>

\* addClickUpComment(env, orderTaskId, comment) (lines 756-765, 901-910);
\* setClickUpTaskCustomField returns at once without a task id (line 325).
TaskComment(p) ==
  /\ pc[p] = "taskComment"
  /\ comments' = comments \cup {<<loc[p].taskId, loc[p].eventId>>}
  /\ loc' = [loc EXCEPT ![p].calls = @ + 1]
  /\ Goto(p, IF loc[p].accountTaskId = 0 THEN "postWrite" ELSE "setField")
  /\ cuCalls' = cuCalls + 1
  /\ UNCHANGED <<now, ticks, env, R2, tasks, fields, faults, started, overlapped, canonLog, admitted>>

\* setClickUpTaskCustomField(env, accountTaskId, link field, [taskId])
\* (lines 767-772, 912-917).
SetField(p) ==
  /\ pc[p] = "setField"
  /\ fields' = fields \cup
       {<<loc[p].accountTaskId,
          IF loc[p].h = "order" THEN "accountOrderTaskLink" ELSE "accountSupportTaskLink",
          loc[p].taskId>>}
  /\ loc' = [loc EXCEPT ![p].calls = @ + 1]
  /\ Goto(p, "postWrite")
  /\ cuCalls' = cuCalls + 1
  /\ UNCHANGED <<now, ticks, env, R2, tasks, comments, faults, started, overlapped, canonLog, admitted>>

\* ------------------------------------------------------------- post-write
\* A post-write that stores the receipt as it was pre-written.
processedReceipt_Unmarked(l) == l.receipt

\* receipt.processed = true; ... (lines 626-628, 776-778, 921-923).
processedReceipt(l) ==
  [l.receipt EXCEPT !.processed = TRUE, !.processingError = "null",
                    !.clickUpTaskId = IF l.h = "intake" THEN l.accountTaskId ELSE l.taskId]

\* A catch block that records no error.
failedReceipt_NoError(l) ==
  [l.receipt EXCEPT !.processed = FALSE]

\* A catch block that answers without the error's details.
failureResponse_NoDetails(l) ==
  [NoResp EXCEPT !.status = 500, !.ok = FALSE, !.eventId = l.eventId]

\* A catch block that answers with status 200.
failureResponse_Status200(l) ==
  [NoResp EXCEPT !.status = 200, !.ok = FALSE, !.eventId = l.eventId, !.error = l.err]

\* receipt.processed = false; receipt.processingError = ... (lines 644-645,
\* 795-796, 940-941).
failedReceipt(l) ==
  [l.receipt EXCEPT !.processed = FALSE, !.processingError = l.err]

\* The response of the catch block (lines 648-651, 799-802, 944-947).
failureResponse(l) ==
  [NoResp EXCEPT !.status = 500, !.ok = FALSE, !.eventId = l.eventId, !.error = l.err]

\* await writeJsonR2(env, receiptKey, receipt) and the 200 (lines 630-642,
\* 780-793, 925-938).
PostWrite(p) ==
  /\ pc[p] = "postWrite"
  /\ LET l == loc[p]
         receipt == processedReceipt(l)
     IN  /\ R2' = writeJsonR2(R2, receiptKey(l.eventId), receipt)
         /\ Respond(p, [NoResp EXCEPT !.status = 200, !.ok = TRUE, !.eventId = l.eventId])
  /\ UNCHANGED <<now, ticks, env, tasks, comments, fields, faults, started, overlapped, cuCalls, canonLog, admitted>>

\* A catch block that also removes the canonical documents of its request.
Catch_RollsBack(p) ==
  /\ pc[p] = "catch"
  /\ LET l == loc[p]
         b == writeJsonR2(R2, receiptKey(l.eventId), failedReceipt(l))
         keep == DOMAIN b \ {accountKey(l.accountId), orderKey(l.orderId),
                             supportKey(l.orderId)}
     IN  /\ R2' = [k \in keep |-> b[k]]
         /\ Respond(p, failureResponse(l))
  /\ UNCHANGED <<now, ticks, env, tasks, comments, fields, faults, started, overlapped, cuCalls, canonLog, admitted>>

\* A catch block that answers without storing the receipt.
Catch_NoWrite(p) ==
  /\ pc[p] = "catch"
  /\ Respond(p, failureResponse(loc[p]))
  /\ UNCHANGED <<now, ticks, env, R2, tasks, comments, fields, faults, started, overlapped, cuCalls, canonLog, admitted>>

\* A catch block that gives the submission back to the throttle.
Catch_RefundsThrottle(p) ==
  /\ pc[p] = "catch"
  /\ LET l == loc[p]
         key == throttleKey(l.h, l.normalized.primaryEmail)
         b == writeJsonR2(R2, receiptKey(l.eventId), failedReceipt(l))
     IN  /\ R2' = writeJsonR2(b, key, [b[key] EXCEPT !.lastAt = 0, !.countToday = @ - 1])
         /\ Respond(p, failureResponse(l))
  /\ UNCHANGED <<now, ticks, env, tasks, comments, fields, faults, started, overlapped, cuCalls, canonLog, admitted>>

\* catch (err): the receipt written as failed and the response (lines 643-652,
\* 794-803, 939-948).
Catch(p) ==
  /\ pc[p] = "catch"
  /\ LET l == loc[p]
         receipt == failedReceipt(l)
     IN  /\ R2' = writeJsonR2(R2, receiptKey(l.eventId), receipt)
         /\ Respond(p, failureResponse(l))
  /\ UNCHANGED <<now, ticks, env, tasks, comments, fields, faults, started, overlapped, cuCalls, canonLog, admitted>>

\* -------------------------------------------------------- failing calls
CanonicalPcs == {"readAccount", "writeOrder", "writeAccount", "writeSupport"}
TrackerPcs == {"createAccountTask", "accountComment", "createTask", "taskComment",
               "setField"}
\* The awaited calls inside try { } (lines 592-642, 720-793, 871-938).
TryPcs == CanonicalPcs \cup TrackerPcs \cup {"patchAccount", "postWrite"}
\* The awaited calls outside it: an exception there leaves the handler.
OutsidePcs == {"readReceipt", "throttleRead", "throttleWrite", "preWrite", "catch"}

\* An awaited call throws: R2 get/put rejects, or clickUpRequest throws on
\* !res.ok (lines 306-308).  Inside try the handler goes to its catch block;
\* outside it the exception leaves the handler and the platform answers.
CallFails(p) ==
  /\ faults < MaxFaults
  /\ faults' = faults + 1
  /\ \/ /\ pc[p] \in TryPcs
        /\ loc' = [loc EXCEPT ![p].err = IF pc[p] \in TrackerPcs THEN "ClickUp 500"
                                         ELSE "R2 error",
                              ![p].calls = IF pc[p] \in TrackerPcs THEN @ + 1 ELSE @]
        /\ Goto(p, "catch")
     \/ /\ pc[p] \in OutsidePcs
        /\ Respond(p, [NoResp EXCEPT !.status = 500, !.error = "exception"])
  /\ cuCalls' = IF pc[p] \in TrackerPcs THEN cuCalls + 1 ELSE cuCalls
  /\ UNCHANGED <<now, ticks, env, R2, tasks, comments, fields, started, overlapped, canonLog, admitted>>

\* ------------------------------------------------------------------ init
\* The state after deployment: an empty bucket, no task.
EmptyInit ==
  /\ R2 = <<>>
  /\ tasks = <<>>
  /\ comments = {}
  /\ admitted = {}

\* The state one accepted intake (event G0, at StartTime) leaves behind: its
\* throttle record, its committed receipt, the account and, with ClickUp
\* configured, the account task; built with the operators of the handler.
seedLoc ==
  LET d == [eventId |-> "", email |-> "a@x.co", value |-> "v1", second |-> "l1",
            token |-> "", level |-> ""]
      l0 == [NoLoc EXCEPT !.h = "intake", !.data = d, !.eventId = randomUUID(0),
                          !.normalized = normalizePayload("intake", d),
                          !.accountId = accountIdFromEmail(d.email)]
      l1 == [l0 EXCEPT !.receipt = newReceipt(l0, l0.accountId),
                       !.account = intakeAccount(l0, Null)]
  IN  l1

SeededInit ==
  LET l == seedLoc
      configured == env.apiKey /\ env.accountsList
      taskId == IF configured THEN 1 ELSE 0
      account == [l.account EXCEPT !.clickUp = [accountTaskId |-> taskId]]
      verdict == throttleVerdict(Null, StartTime, cooldownSeconds("intake"),
                                 maxPerDay("intake"))
      b1 == writeJsonR2(<<>>, throttleKey("intake", l.normalized.primaryEmail),
                        verdict.nextState)
      b2 == writeJsonR2(b1, accountKey(l.accountId), account)
      b3 == writeJsonR2(b2, receiptKey(l.eventId),
                        processedReceipt([l EXCEPT !.accountTaskId = taskId]))
  IN  /\ R2 = b3
      /\ tasks = IF configured THEN <<taskFor(l, "accounts")>> ELSE <<>>
      /\ comments = IF configured THEN {<<1, l.eventId>>} ELSE {}
      /\ admitted = {<<"intake", sha256Hex(l.normalized.primaryEmail), StartTime, 0>>}

Init ==
  /\ now = StartTime
  /\ ticks = 0
  /\ env \in EnvConfigs
  /\ EmptyInit \/ SeededInit
  /\ fields = {}
  /\ pc = [p \in Procs |-> "idle"]
  /\ loc = [p \in Procs |-> NoLoc]
  /\ resp = [p \in Procs |-> NoResp]
  /\ faults = 0
  /\ started = 0
  /\ overlapped = {}
  /\ cuCalls = 0
  /\ canonLog = {}

\* ------------------------------------------------------------------ next
Payloads(h) ==
  [eventId : EventIdInputs, email : EmailInputs, value : ValueInputs,
   second : IF h = "intake" THEN {"l1"} ELSE {""},
   token : IF h = "order" THEN TokenInputs ELSE {""}, level : {""}]

Next ==
  \/ \E d \in TickDeltas : Tick(d)
  \/ \E p \in Procs, h \in Handlers : \E d \in Payloads(h) : Receive(p, h, d)
  \/ \E p \in Procs : ReadReceipt(p)
  \/ \E p \in Procs : ThrottleRead(p)
  \/ \E p \in Procs : ThrottleWrite(p)
  \/ \E p \in Procs : PreWrite(p)
  \/ \E p \in Procs : ReadAccount(p)
  \/ \E p \in Procs : WriteOrder(p)
  \/ \E p \in Procs : WriteAccount(p)
  \/ \E p \in Procs : WriteSupport(p)
  \/ \E p \in Procs : CreateAccountTask(p)
  \/ \E p \in Procs : AccountComment(p)
  \/ \E p \in Procs : PatchAccount(p)
  \/ \E p \in Procs : CreateTask(p)
  \/ \E p \in Procs : TaskComment(p)
  \/ \E p \in Procs : SetField(p)
  \/ \E p \in Procs : PostWrite(p)
  \/ \E p \in Procs : Catch(p)
  \/ \E p \in Procs : CallFails(p)

Spec == Init /\ [][Next]_vars

\* ------------------------------------------- one request after the other
\* The awaited calls of invocation p, none of them failing.
Steps(p) ==
  \/ ReadReceipt(p)
  \/ ThrottleRead(p)
  \/ ThrottleWrite(p)
  \/ PreWrite(p)
  \/ ReadAccount(p)
  \/ WriteOrder(p)
  \/ WriteAccount(p)
  \/ WriteSupport(p)
  \/ CreateAccountTask(p)
  \/ AccountComment(p)
  \/ PatchAccount(p)
  \/ CreateTask(p)
  \/ TaskComment(p)
  \/ SetField(p)
  \/ PostWrite(p)
  \/ Catch(p)

\* A request arrives when no other is in flight.
SeqReceive(h, d, limit) ==
  /\ started < limit
  /\ \A q \in Procs : ~InFlight(q)
  /\ Arrive(1, h, d)

\* Submissions of one person, one after the other, over two UTC days: the
\* clock advances by half a cooldown, by a cooldown, or to the same time of
\* the next day less two cooldowns.
SeqTickDeltas ==
  {CooldownIntake \div 2, CooldownIntake, SecondsPerDay - 2 * CooldownIntake}

SeqTick(d) ==
  /\ started < MaxSeqRequests
  /\ ticks < MaxSeqTicks
  /\ Advance(d)

ThrottlePayload(h) ==
  [eventId |-> "", email |-> "a@x.co", value |-> "v1",
   second |-> IF h = "intake" THEN "l1" ELSE "", token |-> "", level |-> ""]

ThrottleNext ==
  \/ \E d \in SeqTickDeltas : SeqTick(d)
  \/ \E h \in Handlers : SeqReceive(h, ThrottlePayload(h), MaxSeqRequests)
  \/ Steps(1)

ThrottleSpec == Init /\ [][ThrottleNext]_vars

\* ------------------------------------------------------------- webhooks
Webhooks == {"cal", "stripe"}
\* A webhook request: its method, whether its body parses as JSON, and its
\* signature header (absent, not matching the raw body, or matching it).
WebhookRequests ==
  [method : {"POST", "GET"}, json : BOOLEAN,
   signature : {"missing", "mismatch", "valid"}]

\* handleCalWebhook, handleStripeWebhook up to await readRawBody(request)
\* (lines 515-518, 956-959).
ReceiveWebhook(p, hook, req, limit) ==
  /\ started < limit
  /\ \A q \in Procs : ~InFlight(q)
  /\ started' = started + 1
  /\ IF req.method # "POST"
     THEN Respond(p, [NoResp EXCEPT !.status = 405, !.error = "Method not allowed"])
     ELSE /\ pc' = [pc EXCEPT ![p] = "readRawBody"]
          /\ resp' = [resp EXCEPT ![p] = NoResp]
          /\ loc' = [loc EXCEPT ![p] = [NoLoc EXCEPT !.req = started + 1, !.h = hook,
                                                   !.data = req]]
  /\ UNCHANGED <<now, ticks, env, R2, tasks, comments, fields, faults, overlapped,
                 cuCalls, canonLog, admitted>>

\* tryParseJson(rawBody) and the response (lines 519-524, 960-965).
WebhookBody(p) ==
  /\ pc[p] = "readRawBody"
  /\ IF ~loc[p].data.json
     THEN Respond(p, [NoResp EXCEPT !.status = 400, !.error = "Invalid JSON"])
     ELSE Respond(p, [NoResp EXCEPT !.status = 200, !.ok = TRUE])
  /\ UNCHANGED <<now, ticks, env, R2, tasks, comments, fields, faults, started,
                 overlapped, cuCalls, canonLog, admitted>>

\* ------------------------------------- submissions and webhooks as sent
\* What a form may carry: the email as stored, with other case and
\* surrounding blanks, or absent; fields filled, empty or blank.
\* Besides: an event id (well-formed, well-formed within blanks, malformed),
\* an urgency level or priority (one of the contract's values, or none of
\* them), an order token.
InputPayloads(h) ==
  LET plain == [eventId |-> "", email |-> "a@x.co", value |-> "v1",
                second |-> IF h = "support" THEN "" ELSE "l1", token |-> "",
                level |-> ""]
  IN  [eventId : {""}, email : {"a@x.co", " A@X.co ", ""}, value : {"v1", "", " "},
       second : IF h = "support" THEN {""} ELSE {"l1", ""},
       token : {""}, level : {""}]
      \cup {[plain EXCEPT !.eventId = e] : e \in {"E1", " E1 ", "bad"}}
      \cup {[plain EXCEPT !.level = v] : v \in IF h = "order" THEN {} ELSE {"High", "bogus"}}
      \cup {[plain EXCEPT !.token = "T1", !.value = v] :
              v \in IF h = "order" THEN {"v1", ""} ELSE {}}

\* A form request that does not get as far as its fields.
MalformedRequests ==
  {r \in [method : {"POST", "GET"}, body : {"ok", "Invalid JSON", "Unsupported body type"}] :
     r.method # "POST" \/ r.body # "ok"}

\* handleForms*: the method check and parseInboundBody failing (lines 532-543,
\* 660-671, 811-822; 60-90).
ReceiveMalformed(p, h, req, limit) ==
  /\ started < limit
  /\ \A q \in Procs : ~InFlight(q)
  /\ started' = started + 1
  /\ IF req.method # "POST"
     THEN Respond(p, [NoResp EXCEPT !.status = 405, !.error = "Method not allowed"])
     ELSE Respond(p, [NoResp EXCEPT !.status = 400, !.error = req.body])
  /\ UNCHANGED <<now, ticks, env, R2, tasks, comments, fields, faults, overlapped,
                 cuCalls, canonLog, admitted>>

InputTick(d) ==
  /\ started < MaxInputRequests
  /\ ticks < MaxTicks
  /\ Advance(d)

InputNext ==
  \/ \E d \in TickDeltas : InputTick(d)
  \/ \E h \in Handlers : \E d \in InputPayloads(h) : SeqReceive(h, d, MaxInputRequests)
  \/ \E h \in Handlers : \E req \in MalformedRequests :
       ReceiveMalformed(1, h, req, MaxInputRequests)
  \/ \E hook \in Webhooks : \E req \in WebhookRequests :
       ReceiveWebhook(1, hook, req, MaxInputRequests)
  \/ WebhookBody(1)
  \/ Steps(1)

InputSpec == Init /\ [][InputNext]_vars

\* ------------------------------------ submissions of two people, in turn
\* Two emails; an order carries the token T1, whoever sends it.
OwnerEmails == {"a@x.co", "b@x.co"}

OwnerPayloads(h) ==
  [eventId : {""}, email : OwnerEmails, value : {"v1"},
   second : IF h = "intake" THEN {"l1"} ELSE {""},
   token : IF h = "order" THEN {"T1"} ELSE {""}, level : {""}]

OwnerNext ==
  \/ \E h \in Handlers : \E d \in OwnerPayloads(h) : SeqReceive(h, d, MaxOwnerRequests)
  \/ Steps(1)

OwnerSpec == Init /\ [][OwnerNext]_vars

\* ================================================================ claims
CommittedIn(bucket, e) ==
  receiptKey(e) \in DOMAIN bucket /\ bucket[receiptKey(e)].processed = TRUE
HasReceipt(e) == receiptKey(e) \in DOMAIN R2
StoredReceipt(e) == R2[receiptKey(e)]
Committed(e) == CommittedIn(R2, e)
FailedState(e) ==
  HasReceipt(e) /\ StoredReceipt(e).processed = FALSE
                /\ StoredReceipt(e).processingError # "null"
PendingState(e) ==
  HasReceipt(e) /\ StoredReceipt(e).processed = FALSE
                /\ StoredReceipt(e).processingError = "null"

\* Every event id a request can carry.
EventIds == UuidLikeIds \cup {randomUUID(n) : n \in 0..MaxRequests}
Kinds == {"account", "order", "support"}
Lists == {"accounts", "orders", "support"}

TasksFor(e, lists) == {i \in DOMAIN tasks : tasks[i].eventId = e /\ tasks[i].list \in lists}
WritersOf(e) == {r \in 0..MaxRequests : \E k \in Kinds : <<e, r, k>> \in canonLog}

\* The canonical documents a handler writes, and those invocation p has written.
requiredWrites(h) ==
  CASE h = "intake" -> {"account"}
    [] h = "order" -> {"order", "account"}
    [] OTHER -> {"support"}
canonOf(p) == {k \in Kinds : <<loc[p].eventId, loc[p].req, k>> \in canonLog}

FullyConfigured ==
  env.apiKey /\ env.accountsList /\ env.ordersList /\ env.supportList

\* Invocation p takes a step that ends it without any call failing in this step.
Returns(p) == pc[p] # "done" /\ pc'[p] = "done" /\ faults' = faults
\* Invocation p passes the idempotency gate's read.
GateStep(p) == pc[p] = "readReceipt" /\ pc'[p] # "readReceipt"
IdempotentResponse(e) ==
  [NoResp EXCEPT !.status = 200, !.ok = TRUE, !.idempotent = TRUE, !.eventId = e]
CallFailedIn(p) == loc[p].err \in {"ClickUp 500", "R2 error"}

\* ---------------------------------------------------------------- C1
\* C1 (as amended): a request that finds the receipt of its event id stored
\* with processed=true changes no stored object (receipt, account, order,
\* support, throttle state), sends nothing to ClickUp and, when its read
\* succeeds, answers 200 ok=true idempotent=true: the tracker records of the
\* event stay as the first processing left them.
C1_IdempotentResubmission ==
  [][\A p \in Procs :
       (GateStep(p) /\ Committed(loc[p].eventId))
       => /\ UNCHANGED <<R2, tasks, comments, fields, cuCalls, canonLog, admitted>>
          /\ pc'[p] = "done"
          /\ (faults' = faults => resp'[p] = IdempotentResponse(loc[p].eventId))
    ]_vars

\* A resubmission of a committed event was answered as already processed.
C1_Witness ==
  \E p \in Procs : pc[p] = "done" /\ resp[p].idempotent /\ resp[p].eventId = "E1"
                   /\ Committed("E1")

\* C1 (as stated): ... and exactly one tracker record exists for the event.
\* Restricted to runs without any failed call, events never delivered twice at
\* once, and ClickUp fully configured.
C1_ExactlyOneTrackerRecord ==
  [][\A p \in Procs :
       (GateStep(p) /\ Committed(loc[p].eventId) /\ faults' = 0 /\ FullyConfigured
          /\ loc[p].eventId \notin overlapped)
       => /\ UNCHANGED <<R2, tasks, comments, fields, cuCalls, canonLog, admitted>>
          /\ resp'[p] = IdempotentResponse(loc[p].eventId)
          /\ Cardinality(TasksFor(loc[p].eventId, Lists)) = 1
    ]_vars

\* ---------------------------------------------------------------- C2
\* C2: a request sends something to ClickUp only after it has written every
\* canonical document of its handler; a request whose canonical read or write
\* fails has sent nothing to ClickUp and sends nothing afterwards.
C2_Ordering ==
  [][\A p \in Procs :
       /\ (cuCalls' # cuCalls /\ pc'[p] # pc[p])
            => InFlight(p) /\ requiredWrites(loc[p].h) \subseteq canonOf(p)
       /\ (pc[p] \in CanonicalPcs /\ pc'[p] = "catch") => loc[p].calls = 0
       /\ (pc[p] = "catch" /\ pc'[p] # "catch") => cuCalls' = cuCalls
    ]_vars

\* An order request has written its order and account and is calling ClickUp.
C2_Witness ==
  \E p \in Procs : loc[p].h = "order" /\ loc[p].calls > 0 /\ pc[p] \in TrackerPcs
                   /\ canonOf(p) = {"order", "account"}

\* ---------------------------------------------------------------- C3
\* C3: the pre-write stores the receipt with processed=false, no error and the
\* request's payload; every call of the pipeline that fails does so after that
\* pre-write; and when the handler returns from its catch block the stored
\* receipt has processed=false, a non-null processingError and that payload.
\* (A catch block whose own write throws does not return: the exception
\* leaves the handler.)
C3_ReceiptDurability ==
  [][\A p \in Procs :
       LET e == loc[p].eventId
           payload == [loc[p].data EXCEPT !.eventId = e]
       IN  /\ (pc[p] = "preWrite" /\ pc'[p] = "readAccount")
                => /\ receiptKey(e) \in DOMAIN R2'
                   /\ R2'[receiptKey(e)].processed = FALSE
                   /\ R2'[receiptKey(e)].processingError = "null"
                   /\ R2'[receiptKey(e)].rawPayload = payload
           /\ (pc[p] \in TryPcs /\ pc'[p] = "catch") => loc[p].preWritten
           /\ (pc[p] = "catch" /\ Returns(p))
                => /\ loc[p].preWritten
                   /\ receiptKey(e) \in DOMAIN R2'
                   /\ R2'[receiptKey(e)].processed = FALSE
                   /\ R2'[receiptKey(e)].processingError # "null"
                   /\ R2'[receiptKey(e)].rawPayload = payload
    ]_vars

\* A call failed and the handler returned with the receipt stored as failed.
C3_Witness ==
  \E p \in Procs : pc[p] = "done" /\ resp[p].eventId = "E1" /\ ~resp[p].ok
                   /\ faults > 0 /\ FailedState("E1")
                   /\ StoredReceipt("E1").processingError \in {"ClickUp 500", "R2 error"}

\* ---------------------------------------------------------------- C4
\* C4 (as stated): a receipt stored with processed=true is never afterwards
\* stored with processed=false, and no receipt is ever removed.
C4_CommittedIsTerminal ==
  [][\A e \in EventIds :
       /\ HasReceipt(e) => HasReceipt(e)'
       /\ Committed(e) => Committed(e)'
    ]_vars

\* ---------------------------------------------------------------- C5
\* C5 (as stated): for each event id, at most one request performs the
\* canonical write and at most one task of each list is created.  Restricted
\* to runs in which no call fails.
C5_AtMostOnce ==
  faults = 0 =>
    \A e \in EventIds :
      /\ Cardinality(WritersOf(e)) <= 1
      /\ \A list \in Lists : Cardinality(TasksFor(e, {list})) <= 1

\* ---------------------------------------------------------------- C6
\* C6 (as stated): whatever attempts failed before, once an event that was
\* never delivered twice at once is committed there is at most one order task
\* and at most one support task for it.
C6_OneTaskAfterRetry ==
  \A e \in EventIds :
    (Committed(e) /\ e \notin overlapped)
      => /\ Cardinality(TasksFor(e, {"orders"})) <= 1
         /\ Cardinality(TasksFor(e, {"support"})) <= 1

\* ---------------------------------------------------------------- C7
\* C7 (as stated): once a receipt exists, no step changes its rawPayload.
\* Restricted to events never delivered twice at once and to redeliveries to
\* the form endpoint of the first delivery.
C7_RawPayloadImmutable ==
  [][\A e \in EventIds :
       (HasReceipt(e) /\ e \notin overlapped' /\ HasReceipt(e)'
          /\ StoredReceipt(e)'.type = StoredReceipt(e).type)
         => StoredReceipt(e)'.rawPayload = StoredReceipt(e).rawPayload
    ]_vars

\* ---------------------------------------------------------------- C8
\* Invocation p found, at the gate, a receipt in FAILED state for its event.
SawFailed(p) ==
  InFlight(p) /\ (loc[p].sawFailed \/ (pc[p] = "readReceipt" /\ FailedState(loc[p].eventId)))

\* C8 (as amended): a request that finds the receipt of its event id in FAILED
\* state is not short-circuited; if the throttle accepts it, the account exists
\* (order, support) and every call succeeds, it pre-writes, writes the
\* canonical documents of its handler and returns ok with the receipt
\* COMMITTED.
C8_RetryAfterFailure ==
  [][\A p \in Procs :
       (SawFailed(p) /\ Returns(p) /\ ~CallFailedIn(p)
          /\ pc[p] # "throttleRead" /\ loc[p].err = "null")
       => /\ resp'[p].ok /\ ~resp'[p].idempotent /\ resp'[p].status = 200
          /\ loc[p].preWritten
          /\ requiredWrites(loc[p].h) \subseteq canonOf(p)
          /\ CommittedIn(R2', loc[p].eventId)
    ]_vars

\* A redelivery of a failed event has re-run the pipeline and committed: both
\* requests carried E1, one after the other, and both wrote the canonical
\* documents.
C8_Witness ==
  /\ Committed("E1") /\ "E1" \notin overlapped /\ faults = 1
  /\ WritersOf("E1") = {1, 2}
  /\ \E p \in Procs : pc[p] = "done" /\ resp[p].ok /\ ~resp[p].idempotent
                      /\ resp[p].eventId = "E1"

\* C8 (as stated): a request that finds the receipt of its event id in FAILED
\* state and none of whose calls fails returns ok, not short-circuited, with
\* the receipt COMMITTED.  Restricted to events never delivered twice at once.
C8_AlwaysRerunsToCommitted ==
  [][\A p \in Procs :
       (SawFailed(p) /\ Returns(p) /\ ~CallFailedIn(p)
          /\ loc[p].eventId \notin overlapped)
       => /\ resp'[p].ok /\ ~resp'[p].idempotent
          /\ CommittedIn(R2', loc[p].eventId)
    ]_vars

\* ---------------------------------------------------------------- C9
\* The catch block of invocation p returns after a ClickUp call failed.
ProjectionFailureReturn(p) ==
  pc[p] = "catch" /\ Returns(p) /\ loc[p].err = "ClickUp 500"

DependencyFailureReturn(p) ==
  pc[p] = "catch" /\ Returns(p) /\ CallFailedIn(p)

CanonicalKeys(bucket) ==
  {k \in DOMAIN bucket : k[1] \in {"accounts", "orders", "support"}}
CanonicalWritePcs == {"writeOrder", "writeAccount", "writeSupport", "patchAccount"}
\* Invocation p completes the awaited call it is at.
Completes(p, label) == pc[p] = label /\ pc'[p] # label /\ faults' = faults

\* C11: no step removes a stored object; a canonical document (account, order,
\* support) changes only when some request completes a canonical write, so a
\* failing tracker call and the catch block that follows leave every canonical
\* document as it is; and a canonical write stores the values of its request.
C11_CanonicalSurvivesProjectionFailure ==
  [][/\ DOMAIN R2 \subseteq DOMAIN R2'
     /\ \A k \in CanonicalKeys(R2) :
          R2'[k] # R2[k] => \E p \in Procs : \E label \in CanonicalWritePcs :
                              Completes(p, label)
     /\ \A p \in Procs :
          LET l == loc[p]
          IN  /\ Completes(p, "writeAccount")
                   => /\ R2'[accountKey(l.accountId)] = l.account
                      /\ (l.h = "intake" => l.account.firstName = l.normalized.value)
              /\ Completes(p, "writeOrder")
                   => /\ R2'[orderKey(l.orderId)] = l.doc
                      /\ l.doc.productName = l.normalized.value
              /\ Completes(p, "writeSupport")
                   => /\ R2'[supportKey(l.orderId)] = l.doc
                      /\ l.doc.summary = l.normalized.value
    ]_vars

\* An order request wrote its order, a ClickUp call of it failed, the handler
\* returned, and the order written is still stored.
C11_Witness ==
  \E p \in Procs :
    /\ pc[p] = "done" /\ resp[p].error = "ClickUp 500" /\ resp[p].eventId = "E1"
    /\ FailedState("E1") /\ StoredReceipt("E1").type = "order"
    /\ orderKey("E1") \in DOMAIN R2
    /\ <<"E1", 1, "order">> \in canonLog \/ <<"E1", 2, "order">> \in canonLog

\* ------------------------------------------------------- throttle claims
\* The identity the throttle keys on, and what the throttle let through for it.
IdentityOf(email) == sha256Hex(toLowerCase(trim(email)))
Admitted(h, id) == {a \in admitted : a[1] = h /\ a[2] = id}
AdmittedOn(h, id, day) == {a \in Admitted(h, id) : dayKeyUTC(a[3]) = day}
LastAdmitted(h, id) ==
  CHOOSE t \in {a[3] : a \in Admitted(h, id)} : \A a \in Admitted(h, id) : a[3] <= t
\* The throttle decides on the submission of invocation p.
Decides(p) == pc[p] = "throttleRead" /\ pc'[p] # "throttleRead" /\ faults' = faults
Rejected(p, error) ==
  /\ pc'[p] = "done" /\ resp'[p].status = 429 /\ ~resp'[p].ok
  /\ resp'[p].error = error
  /\ UNCHANGED <<R2, admitted>>
CooldownError == "Please wait before submitting again."
DailyCapError == "Daily submission limit reached for this email."

\* ---------------------------------------------------------------- C14
\* C14: with one request at a time and fewer than maxPerDay submissions let
\* through today, a submission arriving fewer than cooldownSeconds after the
\* last one let through is rejected (429) with the hint cooldownSeconds minus
\* the elapsed seconds, which is positive; one arriving later, or the first
\* one, is let through, and the stored state then counts it (one more than
\* were let through today) with lastAt = now.
C14_ThrottleCooldown ==
  [][\A p \in Procs :
       LET h == loc[p].h
           id == IdentityOf(loc[p].normalized.primaryEmail)
           key == throttleKey(h, loc[p].normalized.primaryEmail)
           today == Cardinality(AdmittedOn(h, id, dayKeyUTC(now)))
           elapsed == now - LastAdmitted(h, id)
       IN  /\ (Decides(p) /\ today < maxPerDay(h))
                => IF Admitted(h, id) # {} /\ elapsed < cooldownSeconds(h)
                   THEN /\ Rejected(p, CooldownError)
                        /\ resp'[p].retryAfter = cooldownSeconds(h) - elapsed
                        /\ resp'[p].retryAfter > 0
                   ELSE pc'[p] = "throttleWrite"
           /\ Completes(p, "throttleWrite")
                => /\ R2'[key].countToday = today + 1
                   /\ R2'[key].lastAt = now
                   /\ R2'[key].dayKey = dayKeyUTC(now)
    ]_vars

\* A second intake was let through a cooldown after the first, and a third,
\* half a cooldown later, was rejected with half a cooldown as its hint.
C14_Witness ==
  /\ pc[1] = "done" /\ resp[1].status = 429 /\ resp[1].error = CooldownError
  /\ resp[1].retryAfter = CooldownIntake \div 2
  /\ throttleKey("intake", "a@x.co") \in DOMAIN R2
  /\ R2[throttleKey("intake", "a@x.co")].countToday = 2
  /\ Cardinality(Admitted("intake", IdentityOf("a@x.co"))) = 2

\* ---------------------------------------------------------------- C15
\* The throttle state stored for the submission of invocation p.
StoredThrottle(p) ==
  readJsonR2(R2, throttleKey(loc[p].h, loc[p].normalized.primaryEmail))
CappedToday(p) ==
  /\ StoredThrottle(p) # Null
  /\ StoredThrottle(p).dayKey = dayKeyUTC(now)
  /\ StoredThrottle(p).countToday >= maxPerDay(loc[p].h)

\* C15: a submission whose stored countToday for the current UTC day is at
\* least maxPerDay is rejected as daily-cap, whether the last submission let
\* through is less than a cooldown ago or not (the cap is checked first), and
\* nothing is stored for it.
C15_DailyCapPrecedence ==
  [][\A p \in Procs :
       (Decides(p) /\ CappedToday(p)) => Rejected(p, DailyCapError)
    ]_vars

\* A fourth intake of the day, sent at once after the third was let through,
\* was rejected as daily-cap although the cooldown had not elapsed.
C15_Witness ==
  /\ pc[1] = "done" /\ resp[1].status = 429 /\ resp[1].error = DailyCapError
  /\ R2[throttleKey("intake", "a@x.co")].countToday = MaxPerDayIntake
  /\ R2[throttleKey("intake", "a@x.co")].lastAt = now

\* ---------------------------------------------------------------- C16
Scopes == {a[1] : a \in admitted}
Identities == {a[2] : a \in admitted}
DaysOf(h, id) == {dayKeyUTC(a[3]) : a \in Admitted(h, id)}
StoredFor(h, id) == R2[<<"rate", h, id>>]

\* C16: with one request at a time, for each scope and identity the throttle
\* lets at most maxPerDay submissions through on one UTC day, and once a
\* submission was let through the stored state has the day of the last one
\* let through as dayKey and the number let through on that day as countToday.
C16_ThrottleAccounting ==
  \A h \in Scopes : \A id \in Identities :
    /\ \A day \in DaysOf(h, id) :
         Cardinality(AdmittedOn(h, id, day)) <= maxPerDay(h)
    /\ (Admitted(h, id) # {} /\ \A p \in Procs : pc[p] # "throttleWrite")
         => /\ <<"rate", h, id>> \in DOMAIN R2
            /\ StoredFor(h, id).dayKey = dayKeyUTC(LastAdmitted(h, id))
            /\ StoredFor(h, id).lastAt = LastAdmitted(h, id)
            /\ StoredFor(h, id).countToday =
                 Cardinality(AdmittedOn(h, id, StoredFor(h, id).dayKey))

\* Three intakes were let through today, the last more than a cooldown ago,
\* and one more was rejected.
C16_Witness ==
  /\ Cardinality(AdmittedOn("intake", IdentityOf("a@x.co"), dayKeyUTC(now)))
       = MaxPerDayIntake
  /\ StoredFor("intake", IdentityOf("a@x.co")).countToday = MaxPerDayIntake
  /\ now - StoredFor("intake", IdentityOf("a@x.co")).lastAt >= CooldownIntake
  /\ pc[1] = "done" /\ resp[1].status = 429

\* ---------------------------------------------------------------- C17
\* C17: the throttle's check stores nothing, and the state an invocation
\* stores when it is let through is the one computed from the state it read
\* (that count plus one), whatever was stored in between: so two overlapping
\* requests of one identity that read the same state are both let through and
\* the stored countToday advances by one only.
C17_ThrottleRace ==
  [][\A p \in Procs :
       LET existing == StoredThrottle(p)
           read == IF existing # Null /\ existing.dayKey = dayKeyUTC(now)
                   THEN existing.countToday ELSE 0
       IN  /\ Decides(p) => UNCHANGED R2
           /\ (Decides(p) /\ pc'[p] = "throttleWrite")
                => loc'[p].nextState = [countToday |-> read + 1,
                                        dayKey |-> dayKeyUTC(now), lastAt |-> now]
           /\ Completes(p, "throttleWrite")
                => R2'[throttleKey(loc[p].h, loc[p].normalized.primaryEmail)]
                     = loc[p].nextState
    ]_vars

\* Two intakes of one identity were let through at the same second, and the
\* stored countToday is 1.
C17_Witness ==
  /\ \E a, b \in Admitted("intake", IdentityOf("a@x.co")) : a # b /\ a[3] = b[3]
  /\ \A p \in Procs : pc[p] \notin {"throttleRead", "throttleWrite"}
  /\ StoredFor("intake", IdentityOf("a@x.co")).countToday = 1

\* ---------------------------------------------------------------- C18
\* C18: on the first request of a new UTC day (the stored dayKey is an earlier
\* day) the stored count does not matter: the submission is rejected only if
\* the stored lastAt is less than a cooldown ago, as a cooldown rejection, and
\* is otherwise let through as the first of the day (countToday 1).
C18_DayBoundaryReset ==
  [][\A p \in Procs :
       LET existing == StoredThrottle(p)
       IN  (Decides(p) /\ existing # Null /\ existing.dayKey # dayKeyUTC(now))
             => IF now - existing.lastAt < cooldownSeconds(loc[p].h)
                THEN /\ Rejected(p, CooldownError)
                     /\ resp'[p].retryAfter
                          = cooldownSeconds(loc[p].h) - (now - existing.lastAt)
                ELSE /\ pc'[p] = "throttleWrite"
                     /\ loc'[p].nextState = [countToday |-> 1, dayKey |-> dayKeyUTC(now),
                                             lastAt |-> now]
    ]_vars

\* The identity reached the cap yesterday and its first intake today was let
\* through.
C18_Witness ==
  /\ dayKeyUTC(now) = dayKeyUTC(StartTime) + 1
  /\ Cardinality(AdmittedOn("intake", IdentityOf("a@x.co"), dayKeyUTC(StartTime)))
       = MaxPerDayIntake
  /\ Cardinality(AdmittedOn("intake", IdentityOf("a@x.co"), dayKeyUTC(now))) = 1
  /\ StoredFor("intake", IdentityOf("a@x.co")).countToday = 1

\* ---------------------------------------------------------------- C19
\* The seconds from t to the next UTC day boundary.
UntilNextDay(t) == SecondsPerDay - (t % SecondsPerDay)

\* C19 (as amended): every throttle rejection carries a hint which the
\* handler returns in Retry-After: for a cooldown rejection the seconds until
\* the cooldown clears (cooldownSeconds minus the seconds since the stored
\* lastAt, between 1 and cooldownSeconds); for a daily-cap rejection the fixed
\* value 86400, which is at least the seconds until the next UTC day boundary.
C19_RetryHint ==
  [][\A p \in Procs :
       LET existing == StoredThrottle(p)
           cooldown == cooldownSeconds(loc[p].h)
       IN  (Decides(p) /\ pc'[p] = "done")
             => /\ resp'[p].status = 429
                /\ resp'[p].error \in {CooldownError, DailyCapError}
                /\ resp'[p].error = CooldownError
                     => /\ resp'[p].retryAfter = cooldown - (now - existing.lastAt)
                        /\ resp'[p].retryAfter \in 1..cooldown
                /\ resp'[p].error = DailyCapError
                     => /\ resp'[p].retryAfter = DailyCapRetryAfter
                        /\ resp'[p].retryAfter >= UntilNextDay(now)
    ]_vars

\* An intake was rejected as daily-cap, not at a day boundary, with the hint
\* 86400.
C19_Witness ==
  /\ pc[1] = "done" /\ resp[1].error = DailyCapError
  /\ resp[1].retryAfter = DailyCapRetryAfter
  /\ UntilNextDay(now) < DailyCapRetryAfter

\* C19 (as stated): ... for a daily-cap rejection the hint is the seconds
\* remaining until the next UTC day boundary.
C19_HintIsTimeUntilClear ==
  [][\A p \in Procs :
       LET existing == StoredThrottle(p)
       IN  (Decides(p) /\ pc'[p] = "done")
             => /\ resp'[p].error = CooldownError
                     => resp'[p].retryAfter
                          = cooldownSeconds(loc[p].h) - (now - existing.lastAt)
                /\ resp'[p].error = DailyCapError
                     => resp'[p].retryAfter = UntilNextDay(now)
    ]_vars

\* ------------------------------------------------------- webhook claims
\* C12: a request to /cal/webhook or /stripe/webhook whose signature header
\* is missing or does not match its raw body is rejected with an
\* authentication error, and no ledger entry or any other write is made for
\* it.  Stated for the requests whose body is well-formed JSON, which nothing
\* but the signature could reject.
C12_SignatureRejection ==
  [][\A p \in Procs :
       (pc[p] = "readRawBody" /\ pc'[p] = "done"
          /\ loc[p].data.json
          /\ loc[p].data.signature \in {"missing", "mismatch"})
         => /\ resp'[p].status \in {401, 403}
            /\ ~resp'[p].ok
            /\ UNCHANGED <<R2, tasks, comments, fields>>
    ]_vars

\* ------------------------------------------------------ identity claims
\* The spellings of one email and what they normalise to.
EmailSpellings == {"a@x.co", "A@X.co", " A@X.co "}
NormalizedEmail(email) == toLowerCase(trim(email))
AccountKeys == {k \in DOMAIN R2 : k[1] = "accounts"}
ReceiptKeys == {k \in DOMAIN R2 : k[1] = "receipts/form"}

\* C13: accountIdFromEmail returns the same id for any two emails that are
\* equal after trimming and lower-casing, and the handlers use that id as the
\* account key: the receipts of submissions with spellings of one email name
\* one account id, any two account documents belong to different emails, and
\* the account a committed submission names is stored under that id's key
\* and belongs to the submission's email.
C13_IdentityDeterminism ==
  /\ \A e1, e2 \in EmailSpellings :
       NormalizedEmail(e1) = NormalizedEmail(e2)
         => accountIdFromEmail(e1) = accountIdFromEmail(e2)
  /\ \A k1, k2 \in ReceiptKeys :
       NormalizedEmail(R2[k1].rawPayload.email) = NormalizedEmail(R2[k2].rawPayload.email)
         => R2[k1].accountId = R2[k2].accountId
  /\ \A k1, k2 \in AccountKeys :
       NormalizedEmail(R2[k1].primaryEmail) = NormalizedEmail(R2[k2].primaryEmail)
         => k1 = k2
  /\ \A k \in AccountKeys : k = accountKey(R2[k].accountId)
  /\ \A k \in ReceiptKeys :
       R2[k].processed
         => /\ accountKey(R2[k].accountId) \in AccountKeys
            /\ NormalizedEmail(R2[accountKey(R2[k].accountId)].primaryEmail)
                 = NormalizedEmail(R2[k].rawPayload.email)

\* Two committed submissions spelled the email differently and there is one
\* account document.
C13_Witness ==
  /\ \E k1, k2 \in ReceiptKeys :
       /\ R2[k1].processed /\ R2[k2].processed
       /\ R2[k1].rawPayload.email # R2[k2].rawPayload.email
  /\ Cardinality(AccountKeys) = 1

\* ---------------------------------------------------- validation claims
\* The labels of the required fields a submission leaves empty (after
\* trimming): intake needs first name, last name and email; order needs the
\* email, and the product name unless an order type is given; support needs
\* email and summary.
RequiredEmpty(h, d) ==
  LET empty(v) == trim(v) = ""
      label(cond, name) == IF cond THEN {name} ELSE {}
  IN  CASE h = "intake" ->
             label(empty(d.value), "CRM First Name") \cup
             label(empty(d.second), "CRM Last Name") \cup
             label(empty(d.email), "CRM Primary Email")
        [] h = "order" ->
             label(empty(d.email), "CRM Primary Email") \cup
             label(empty(d.value) /\ empty(d.second), "Product Name")
        [] OTHER ->
             label(empty(d.email), "CF_Support Email") \cup
             label(empty(d.value), "Summary")

Listed(missing) == {missing[i] : i \in 1..Len(missing)}

Responds(p) == pc'[p] = "done" /\ (pc[p] # "done" \/ started' # started)
RejectionStatuses == {405, 400, 429}

\* C21: a form request rejected for a wrong method (405), an unparsable body
\* or missing required fields (400) or by the throttle (429) leaves the
\* receipts, the account, order and support documents and the throttle state
\* as they were and makes no execution-tracker call.
C21_RejectionsWriteNothing ==
  [][\A p \in Procs :
       (Responds(p) /\ resp'[p].status \in RejectionStatuses)
         => /\ resp'[p].ok = FALSE
            /\ UNCHANGED <<R2, tasks, comments, fields, cuCalls, canonLog, admitted>>
    ]_vars

\* A submission was rejected by the throttle over a bucket that holds the
\* throttle record, a receipt and the account.
C21_Witness ==
  /\ pc[1] = "done" /\ resp[1].status = 429
  /\ \E k \in DOMAIN R2 : k[1] = "rate"
  /\ ReceiptKeys # {} /\ AccountKeys # {}

\* The values no contract lists for the urgency level or the priority.
UnknownEnumValues == {"bogus"}
EnumLabels == {"Urgency Level", "CF_Support Priority"}

\* C22: a form submission whose enumerated field (urgency level, priority)
\* carries an unknown value is rejected with a validation error that names
\* the field, before any ledger write.
C22_EnumValidation ==
  [][\A h \in Handlers : \A d \in InputPayloads(h) :
       (Arrive(1, h, d) /\ d.level \in UnknownEnumValues)
         => /\ pc'[1] = "done"
            /\ resp'[1].status = 400
            /\ Listed(resp'[1].missing) \cap EnumLabels # {}
            /\ UNCHANGED R2
    ]_vars

\* ------------------------------------------------- resubmission claims
\* The throttle would reject the submission of invocation p: its email is
\* inside the cooldown window of its scope or has reached the daily cap.
ThrottleWouldReject(p) ==
  /\ StoredThrottle(p) # Null
  /\ \/ CappedToday(p)
     \/ now - StoredThrottle(p).lastAt < cooldownSeconds(loc[p].h)

\* C23: a resubmission with the event id of a committed submission is
\* answered 200 ok idempotent also when the throttle would reject its email,
\* and it leaves the throttle state as it was.
C23_ResubmissionBeatsThrottle ==
  [][\A p \in Procs :
       (GateStep(p) /\ Committed(loc[p].eventId) /\ ThrottleWouldReject(p)
          /\ faults' = faults)
         => /\ resp'[p] = IdempotentResponse(loc[p].eventId)
            /\ resp'[p].status # 429
            /\ \A k \in DOMAIN R2 : k[1] = "rate" => k \in DOMAIN R2' /\ R2'[k] = R2[k]
            /\ admitted' = admitted
    ]_vars

\* A resubmission of the committed E1 was answered as already processed while
\* its email was inside the cooldown window of its scope.
C23_Witness ==
  \E p \in Procs :
    /\ pc[p] = "done" /\ resp[p].idempotent /\ resp[p].eventId = "E1"
    /\ Committed("E1")
    /\ LET r == StoredReceipt("E1")
           k == throttleKey(r.type, r.normalizedPayload.primaryEmail)
       IN  k \in DOMAIN R2 /\ now - R2[k].lastAt < cooldownSeconds(r.type)

\* ------------------------------------------------------- intake claims
\* Invocation p is past the throttle and none of its calls has failed.
Admitted_NoFailure(p) ==
  /\ pc[p] \notin {"idle", "done", "readReceipt", "throttleRead"}
  /\ loc[p].err = "null"

\* C24: an intake submission with all required fields and no eventId that the
\* throttle accepted and none of whose calls failed returns 200 ok with a
\* generated eventId; when it returns, the receipt under that id has
\* processed=true and the account document at the id derived from its email
\* has lifecycleState "intake_submitted".
C24_NewIdentityIntake ==
  [][\A p \in Procs :
       (Returns(p) /\ loc[p].h = "intake" /\ loc[p].data.eventId = ""
          /\ Admitted_NoFailure(p))
         => LET e == loc[p].eventId
                a == accountKey(accountIdFromEmail(loc[p].data.email))
            IN  /\ resp'[p].status = 200 /\ resp'[p].ok /\ ~resp'[p].idempotent
                /\ resp'[p].eventId = e
                /\ e = randomUUID(loc[p].req) /\ e \notin UuidLikeIds
                /\ CommittedIn(R2', e)
                /\ R2'[receiptKey(e)].type = "intake"
                /\ a \in DOMAIN R2'
                /\ R2'[a].lifecycleState = "intake_submitted"
                /\ NormalizedEmail(R2'[a].primaryEmail) = NormalizedEmail(loc[p].data.email)
    ]_vars

\* The first submission into an empty bucket, an intake without eventId, has
\* returned 200 with the generated id G1; its receipt is committed and the
\* account exists.
C24_Witness ==
  \E p \in Procs :
    /\ pc[p] = "done" /\ resp[p].status = 200 /\ resp[p].eventId = "G1"
    /\ ReceiptKeys = {receiptKey("G1")}
    /\ Committed("G1") /\ StoredReceipt("G1").type = "intake"
    /\ \E k \in AccountKeys : R2[k].lifecycleState = "intake_submitted"

\* ----------------------------------------------------- event id claims
\* The event ids a client sends: well-formed (UUID-like after trimming) or not.
WellFormedEventIds == {"E1", " E1 "}
MalformedEventIds == {"", "bad"}

\* C25: the receipt key uses the client-supplied eventId, trimmed, exactly
\* when it is well-formed; otherwise the handler generates an id that no client
\* sent and no receipt is stored under, so that a submission carrying a
\* malformed eventId is a new event whatever was submitted before, and its
\* pre-write adds a receipt under the generated id.
C25_EventIdSelection ==
  [][/\ \A h \in Handlers : \A d \in InputPayloads(h) :
          (Arrive(1, h, d) /\ pc'[1] = "readReceipt")
            => LET e == loc'[1].eventId
               IN  /\ d.eventId \in WellFormedEventIds => e = trim(d.eventId)
                   /\ d.eventId \in MalformedEventIds
                        => /\ e \notin WellFormedEventIds \cup MalformedEventIds
                           /\ e # trim(d.eventId)
                           /\ receiptKey(e) \notin DOMAIN R2
     /\ (pc[1] = "preWrite" /\ pc'[1] = "readAccount")
          => LET sent == loc[1].data.eventId
                 key == receiptKey(loc[1].eventId)
             IN  /\ DOMAIN R2' = DOMAIN R2 \cup {key}
                 /\ R2'[key].eventId = loc[1].eventId
                 /\ sent \in WellFormedEventIds => key = receiptKey(trim(sent))
                 /\ sent \in MalformedEventIds
                      => key # receiptKey(sent) /\ key \notin DOMAIN R2
    ]_vars

\* A submission carrying the malformed eventId "bad" has pre-written its
\* receipt under the generated id G2, beside the committed receipt G1 of an
\* earlier submission with the same fields.
C25_Witness ==
  /\ pc[1] = "readAccount" /\ loc[1].data.eventId = "bad" /\ loc[1].eventId = "G2"
  /\ Committed("G1") /\ HasReceipt("G2") /\ ~HasReceipt("bad")
  /\ StoredReceipt("G1").rawPayload = [loc[1].data EXCEPT !.eventId = "G1"]

\* ------------------------------------------------------- merge claims
\* The fields of an account document: those an order or a support event never
\* produces, and the rest.
CarriedFields ==
  {"accountId", "firstName", "lastName", "lifecycleState", "metadata", "primaryEmail",
   "stripeCustomerId"}
AccountFields == CarriedFields \cup {"activeOrders", "clickUp"}
Elements(seq) == {seq[i] : i \in 1..Len(seq)}
\* Invocation p takes a step, no call of it failing.
StepOf(p) == pc'[p] # pc[p] /\ faults' = faults
AccountOf(p) == accountKey(loc[p].accountId)

\* C26 (as amended): relative to the account document it read, an order
\* submission changes only activeOrders (adding its order id, keeping the
\* others) and, when it creates the account task, the tracker cross-reference;
\* a support submission changes at most the tracker cross-reference: the
\* document a handler keeps is the stored one as read, every document it
\* writes carries names, email, lifecycleState, metadata and stripeCustomerId
\* over from it, and no other step of the handler touches the account.
C26_OrderSupportCarryOver ==
  [][\A p \in Procs :
       (loc[p].h \in {"order", "support"} /\ StepOf(p) /\ AccountOf(p) \in DOMAIN R2)
         => LET a == AccountOf(p)
                kept == loc[p].account
            IN  CASE pc[p] = "readAccount" ->
                       /\ loc'[p].account = R2[a]
                       /\ R2'[a] = R2[a]
                  [] pc[p] = "writeOrder" ->
                       /\ \A f \in CarriedFields \cup {"clickUp"} :
                            loc'[p].account[f] = kept[f]
                       /\ Elements(loc'[p].account.activeOrders)
                            = Elements(kept.activeOrders) \cup {loc[p].orderId}
                       /\ R2'[a] = R2[a]
                  [] pc[p] = "writeAccount" ->
                       /\ loc[p].h = "order"
                       /\ R2'[a] = kept
                  [] pc[p] = "patchAccount" ->
                       /\ kept.clickUp.accountTaskId = 0
                       /\ \A f \in CarriedFields \cup {"activeOrders"} : R2'[a][f] = kept[f]
                       /\ R2'[a].clickUp.accountTaskId = loc[p].createdId
                       /\ loc[p].createdId # 0
                  [] OTHER -> R2'[a] = R2[a]
    ]_vars

\* An order has written the account: the stored document has its order id in
\* activeOrders and the names and metadata of the intake before it.
C26_Witness ==
  \E p \in Procs : \E k \in AccountKeys :
    /\ pc[p] = "done" /\ resp[p].status = 200
    /\ Committed(resp[p].eventId) /\ StoredReceipt(resp[p].eventId).type = "order"
    /\ Len(R2[k].activeOrders) = 1
    /\ R2[k].firstName = "v1" /\ R2[k].lastName = "l1"
    /\ R2[k].lifecycleState = "intake_submitted"

\* C26 (as stated): a successful order or support submission changes in the
\* stored account document nothing but activeOrders and the tracker
\* cross-reference.
C26_StoredAccountKeepsData ==
  [][\A p \in Procs :
       (loc[p].h \in {"order", "support"} /\ StepOf(p) /\ AccountOf(p) \in DOMAIN R2)
         => \A f \in CarriedFields : R2'[AccountOf(p)][f] = R2[AccountOf(p)][f]
    ]_vars

\* The fields of an account document an intake produces, and the rest.
IntakeOwnedFields ==
  {"firstName", "lastName", "primaryEmail", "metadata", "lifecycleState"}
PreservedFields == AccountFields \ (IntakeOwnedFields \cup {"accountId"})

\* C27 (as amended): relative to the account document it read, an intake for
\* an email whose account exists overwrites only the intake-owned fields
\* (names, email, metadata, lifecycleState): the document it builds takes
\* activeOrders, stripeCustomerId and the tracker cross-reference from the
\* stored one, it writes that document, and it patches the tracker
\* cross-reference only when the document has none.
C27_IntakeMerges ==
  [][\A p \in Procs :
       (loc[p].h = "intake" /\ StepOf(p) /\ AccountOf(p) \in DOMAIN R2)
         => LET a == AccountOf(p)
                built == loc[p].account
            IN  CASE pc[p] = "readAccount" ->
                       /\ \A f \in PreservedFields : loc'[p].account[f] = R2[a][f]
                       /\ loc'[p].account.accountId = R2[a].accountId
                       /\ loc'[p].account.firstName = loc[p].normalized.value
                       /\ loc'[p].account.lifecycleState = "intake_submitted"
                       /\ R2'[a] = R2[a]
                  [] pc[p] = "writeAccount" -> R2'[a] = built
                  [] pc[p] = "patchAccount" ->
                       /\ built.clickUp.accountTaskId = 0
                       /\ \A f \in AccountFields \ {"clickUp"} : R2'[a][f] = built[f]
                       /\ R2'[a].clickUp.accountTaskId = loc[p].createdId
                  [] OTHER -> R2'[a] = R2[a]
    ]_vars

\* An intake has written over an account that held an order: the stored
\* document has the intake's new first name and still the order.
C27_Witness ==
  \E p \in Procs : \E k \in AccountKeys :
    /\ pc[p] = "done" /\ resp[p].status = 200
    /\ Committed(resp[p].eventId) /\ StoredReceipt(resp[p].eventId).type = "intake"
    /\ R2[k].firstName = "v2"
    /\ Len(R2[k].activeOrders) = 1

\* C27 (as stated): an intake for an email whose account exists leaves
\* activeOrders, stripeCustomerId and the tracker cross-reference of the stored
\* document as they are (the cross-reference but for the account task it
\* creates).
C27_StoredAccountKeepsRest ==
  [][\A p \in Procs :
       (loc[p].h = "intake" /\ StepOf(p) /\ AccountOf(p) \in DOMAIN R2)
         => LET a == AccountOf(p)
            IN  /\ R2'[a].activeOrders = R2[a].activeOrders
                /\ R2'[a].stripeCustomerId = R2[a].stripeCustomerId
                /\ R2[a].clickUp.accountTaskId # 0 => R2'[a].clickUp = R2[a].clickUp
    ]_vars

\* C28: a later order submission carrying the token of an existing order
\* merges into the stored order document: the fields the new event does not
\* produce, createdAt and the owning accountId, keep their values.
C28_OrderMergedPerToken ==
  [][\A p \in Procs :
       LET k == orderKey(loc[p].orderId)
       IN  (pc[p] = "writeOrder" /\ StepOf(p) /\ loc[p].normalized.orderToken # ""
              /\ k \in DOMAIN R2)
             => /\ R2'[k].createdAt = R2[k].createdAt
                /\ R2'[k].accountId = R2[k].accountId
    ]_vars

\* ----------------------------------------------- terminal state claims
\* C29: a request that has pre-written its receipt answers only from its
\* post-write or from its catch block, unless the receipt write of the catch
\* block itself fails; when it answers, the receipt stored under its event id
\* is COMMITTED (processed=true) or FAILED (processed=false with
\* processingError set), never PENDING.
C29_TerminalReceiptState ==
  [][\A p \in Procs :
       (Responds(p) /\ loc[p].preWritten /\ faults' = faults)
         => LET k == receiptKey(loc[p].eventId)
            IN  /\ pc[p] \in {"postWrite", "catch"}
                /\ k \in DOMAIN R2'
                /\ pc[p] = "postWrite"
                     => /\ R2'[k].processed /\ R2'[k].processingError = "null"
                        /\ resp'[p].status = 200
                /\ pc[p] = "catch"
                     => /\ ~R2'[k].processed /\ R2'[k].processingError # "null"
                        /\ resp'[p].status = 500
    ]_vars

\* A request whose call failed after its pre-write has answered 500 and its
\* receipt is stored as FAILED.
C29_Witness ==
  \E p \in Procs :
    /\ pc[p] = "done" /\ resp[p].status = 500 /\ resp[p].eventId # ""
    /\ FailedState(resp[p].eventId)
    /\ faults = 1

\* ------------------------------------------------- cross-reference claims
\* The tracker record ids a canonical document stores: the account document
\* has clickUp.accountTaskId (lines 401-405, 614-616); the order and support
\* documents have no such field (lines 726-734, 877-886).
TrackerIdsOn(doc) ==
  IF "clickUp" \in DOMAIN doc THEN {doc.clickUp.accountTaskId} ELSE {}

\* The canonical document a task of the given list stands for.
DocKeyFor(l, list) ==
  CASE list = "accounts" -> accountKey(l.accountId)
    [] list = "orders" -> orderKey(l.orderId)
    [] list = "support" -> supportKey(l.orderId)

\* The tracker records invocation p has created.
CreatedBy(p) ==
  {i \in DOMAIN tasks : tasks[i].eventId = loc[p].eventId /\ tasks[i].req = loc[p].req}

\* C30: when a request answers 200 from its post-write, every tracker record
\* it created carries the ledger key and the key of the canonical document it
\* stands for, and that document (the account for an account task, the order
\* for an order task, the support ticket for a support task) stores the id of
\* the record.
C30_CrossReferenceBothWays ==
  [][\A p \in Procs :
       (pc[p] = "postWrite" /\ StepOf(p))
         => \A i \in CreatedBy(p) :
              LET k == DocKeyFor(loc[p], tasks[i].list)
              IN  /\ {receiptKey(loc[p].eventId), k} \subseteq tasks[i].keys
                  /\ k \in DOMAIN R2'
                  /\ i \in TrackerIdsOn(R2'[k])
    ]_vars

\* ----------------------------------------------------- account task claims
\* The account tasks created for the account stored under key k.
AccountTasksOf(k) ==
  {i \in DOMAIN tasks : tasks[i].list = "accounts" /\ k \in tasks[i].keys}

\* C31: for each account at most one account task is ever created, whatever
\* the sequence of intake, order and support submissions for it, overlapping
\* first submissions and redeliveries after a failed attempt included.
C31_OneAccountTaskPerClient ==
  \A k \in AccountKeys : Cardinality(AccountTasksOf(k)) <= 1

\* ------------------------------------------------------- retention claims
DocumentPrefixes == {"receipts/form", "accounts", "orders", "support"}
StoredKeys(bucket) == {k \in DOMAIN bucket : k[1] \in DocumentPrefixes}

\* C32: no step removes a receipt, an account, an order or a support
\* document: the set of stored keys only grows.
C32_NothingDeleted ==
  [][StoredKeys(R2) \subseteq StoredKeys(R2')]_vars

\* Documents of all four kinds are stored, two receipts among them, after
\* two requests have been answered.
C32_Witness ==
  /\ \A prefix \in DocumentPrefixes : \E k \in StoredKeys(R2) : k[1] = prefix
  /\ Cardinality(ReceiptKeys) >= 2
  /\ started = MaxRequests
  /\ \A p \in Procs : ~InFlight(p)

\* ---------------------------------------------------- lost update claims
\* The order events whose receipt is COMMITTED while the stored account of
\* the receipt does not list the order.
LostOrders ==
  {e \in EventIds :
     /\ Committed(e) /\ StoredReceipt(e).type = "order"
     /\ accountKey(StoredReceipt(e).accountId) \in DOMAIN R2
     /\ e \notin Elements(R2[accountKey(StoredReceipt(e).accountId)].activeOrders)}

\* C33: a handler writes back the full account document computed from its own
\* earlier read: what it keeps at its read is the stored activeOrders, an
\* order handler adds its order id to them, and each account write stores the
\* kept list whatever is stored by then; so an order id leaves the stored
\* activeOrders only by the write of a request whose kept document, read
\* earlier, lacks it.  (That this does leave a COMMITTED order out of
\* activeOrders is C33_Witness.)
C33_LastWriteWins ==
  [][\A p \in Procs :
       LET a == AccountOf(p)
           stored == IF a \in DOMAIN R2 THEN Elements(R2[a].activeOrders) ELSE {}
       IN  /\ (pc[p] = "readAccount" /\ StepOf(p) /\ pc'[p] # "catch")
                => Elements(loc'[p].account.activeOrders) = stored
           /\ (pc[p] = "writeOrder" /\ StepOf(p))
                => Elements(loc'[p].account.activeOrders)
                     = Elements(loc[p].account.activeOrders) \cup {loc[p].orderId}
           /\ (pc[p] \in {"writeAccount", "patchAccount"} /\ StepOf(p))
                => R2'[a].activeOrders = loc[p].account.activeOrders
           /\ (pc[p] \notin {"writeAccount", "patchAccount"} /\ a \in DOMAIN R2)
                => (StepOf(p) => R2'[a] = R2[a])
    ]_vars

\* Two overlapping requests for one account, an order among them, have both
\* been answered 200, the order's receipt is COMMITTED, its order document is
\* stored, and the stored account does not list the order.
C33_Witness ==
  /\ \A p \in Procs : pc[p] = "done" /\ resp[p].status = 200 /\ ~resp[p].idempotent
  /\ \E e \in LostOrders : orderKey(e) \in DOMAIN R2
  /\ faults = 0

\* ------------------------------------------------------ write-back claims
\* C34: the write ensureClickUpAccountTask makes to the account document
\* changes only clickUp.accountTaskId, whatever other requests for the account
\* did in between: every other field of the stored account keeps the value it
\* had immediately before the write.
C34_WriteBackTouchesOnlyPointer ==
  [][\A p \in Procs :
       (pc[p] = "patchAccount" /\ StepOf(p))
         => LET a == AccountOf(p)
            IN  /\ a \in DOMAIN R2
                /\ R2'[a].clickUp.accountTaskId = loc[p].createdId
                /\ [R2'[a] EXCEPT !.clickUp = R2[a].clickUp] = R2[a]
    ]_vars

\* ------------------------------------------------- throttle quota claims
ThrottleKeyOf(p) == throttleKey(loc[p].h, loc[p].normalized.primaryEmail)
\* The stored throttle state turns the submission of invocation p away.
StillThrottled(p) ==
  LET existing == R2[ThrottleKeyOf(p)]
  IN  \/ now - existing.lastAt < cooldownSeconds(loc[p].h)
      \/ existing.dayKey = dayKeyUTC(now) /\ existing.countToday >= maxPerDay(loc[p].h)

\* C35: the throttle state a submission wrote when it was let through stays
\* as it is when the submission then fails: the failing call and the catch
\* block leave the throttle record alone, and the record counts the
\* submission.  So a redelivery of the failed event inside the cooldown (or at
\* the cap) is answered 429 by the throttle, nothing is written for it and the
\* receipt stays FAILED.
C35_QuotaNotRefunded ==
  [][\A p \in Procs :
       /\ (pc[p] \in TryPcs \cup {"catch"} /\ pc'[p] # pc[p])
            => /\ ThrottleKeyOf(p) \in DOMAIN R2
               /\ R2'[ThrottleKeyOf(p)] = R2[ThrottleKeyOf(p)]
               /\ R2[ThrottleKeyOf(p)].countToday >= 1
               /\ \E a \in admitted : a[1] = loc[p].h /\ a[4] = loc[p].req
       /\ (pc[p] = "throttleRead" /\ StepOf(p) /\ FailedState(loc[p].eventId)
             /\ ThrottleKeyOf(p) \in DOMAIN R2 /\ StillThrottled(p))
            => /\ pc'[p] = "done" /\ resp'[p].status = 429 /\ ~resp'[p].ok
               /\ UNCHANGED <<R2, tasks, comments, fields, canonLog, admitted>>
    ]_vars

\* The redelivery of event E1, whose first attempt failed after the throttle
\* let it through, has reached the throttle inside the cooldown, alone.
C35_Witness ==
  \E p \in Procs :
    /\ pc[p] = "throttleRead" /\ loc[p].eventId = "E1" /\ loc[p].sawFailed
    /\ FailedState("E1")
    /\ ThrottleKeyOf(p) \in DOMAIN R2 /\ StillThrottled(p)
    /\ loc[p].h = StoredReceipt("E1").type
    /\ \A q \in Procs \ {p} : ~InFlight(q)

\* ------------------------------------------------ receipt key space claims
\* Invocation p carries the event id of a COMMITTED receipt of another form.
ForeignCommitted(p) ==
  /\ Committed(loc[p].eventId)
  /\ StoredReceipt(loc[p].eventId).type # loc[p].h

\* C36: the receipts of the three forms share one key space: a submission to
\* one form endpoint that carries the event id of a COMMITTED receipt of
\* another form is answered as already processed and writes no receipt, no
\* canonical document, no throttle state and no tracker record.
C36_SharedReceiptKeySpace ==
  [][\A p \in Procs :
       (pc[p] = "readReceipt" /\ StepOf(p) /\ ForeignCommitted(p))
         => /\ pc'[p] = "done"
            /\ resp'[p] = IdempotentResponse(loc[p].eventId)
            /\ UNCHANGED <<R2, tasks, comments, fields, canonLog, admitted, cuCalls>>
    ]_vars

\* An order or support submission carrying E1 is at the gate while the
\* COMMITTED receipt of E1 is that of an intake.
C36_Witness ==
  \E p \in Procs :
    /\ pc[p] = "readReceipt" /\ loc[p].eventId = "E1" /\ ForeignCommitted(p)
    /\ StoredReceipt("E1").type = "intake" /\ loc[p].h \in {"order", "support"}
    /\ orderKey("E1") \notin DOMAIN R2 /\ supportKey("E1") \notin DOMAIN R2

\* ------------------------------------------------- missing account claims
AccountNotFound == "Account not found for email."

\* C37: an order or support submission that finds no account for its email
\* goes to its catch block without a canonical write or a tracker call of its
\* own, and the catch block stores the receipt with processed=false and the
\* error, changes nothing else that is stored, and answers 500 with ok=false.
C37_NoAccountNoWrites ==
  [][\A p \in Procs :
       /\ (pc[p] = "readAccount" /\ StepOf(p) /\ loc[p].h # "intake"
             /\ AccountOf(p) \notin DOMAIN R2)
            => /\ pc'[p] = "catch" /\ loc'[p].err = AccountNotFound
               /\ UNCHANGED <<R2, tasks, comments, fields, cuCalls, canonLog>>
       /\ (pc[p] = "catch" /\ StepOf(p) /\ loc[p].err = AccountNotFound)
            => LET k == receiptKey(loc[p].eventId)
               IN  /\ canonOf(p) = {} /\ loc[p].calls = 0
                   /\ CreatedBy(p) = {}
                   /\ \A j \in DOMAIN R2 \ {k} : j \in DOMAIN R2' /\ R2'[j] = R2[j]
                   /\ DOMAIN R2' = DOMAIN R2 \cup {k}
                   /\ ~R2'[k].processed /\ R2'[k].processingError = AccountNotFound
                   /\ resp'[p].status = 500 /\ ~resp'[p].ok
                   /\ UNCHANGED <<tasks, comments, fields, cuCalls, canonLog>>
    ]_vars

\* An order or support submission E1 for an email without an account has been
\* answered 500: its receipt is FAILED, and there is no account, no order, no
\* support document and no task.
C37_Witness ==
  \E p \in Procs :
    /\ pc[p] = "done" /\ resp[p].status = 500 /\ resp[p].error = AccountNotFound
    /\ resp[p].eventId = "E1" /\ FailedState("E1")
    /\ StoredReceipt("E1").type \in {"order", "support"}
    /\ StoredReceipt("E1").processingError = AccountNotFound
    /\ \A k \in DOMAIN R2 : k[1] \notin {"accounts", "orders", "support"}
    /\ tasks = <<>> /\ cuCalls = 0

\* ------------------------------------------- committed receipt claims
\* The order id of the order event a receipt records (lines 700-703).
OrderIdOf(receipt) ==
  IF receipt.normalizedPayload.orderToken # "" THEN receipt.normalizedPayload.orderToken
  ELSE receipt.eventId

\* The canonical documents of a receipt's event are stored.
Backed(receipt) ==
  LET a == accountKey(receipt.accountId)
  IN  CASE receipt.type = "intake" -> a \in DOMAIN R2
        [] receipt.type = "order" ->
             /\ orderKey(OrderIdOf(receipt)) \in DOMAIN R2
             /\ a \in DOMAIN R2
             /\ OrderIdOf(receipt) \in Elements(R2[a].activeOrders)
        [] OTHER ->
             /\ supportKey(receipt.eventId) \in DOMAIN R2
             /\ R2[supportKey(receipt.eventId)].supportId = receipt.eventId

\* C38: with one request at a time, every receipt stored with processed=true
\* has no processingError and the canonical documents of its event are
\* stored: the account for an intake; the order document and an account that
\* lists the order for an order; the support document for a support
\* submission.
C38_CommittedReceiptsBacked ==
  \A k \in ReceiptKeys :
    R2[k].processed => R2[k].processingError = "null" /\ Backed(R2[k])

\* Committed receipts of all three forms are stored, the order's under a
\* token or under its event id.
C38_Witness ==
  /\ \A h \in Handlers : \E k \in ReceiptKeys : R2[k].processed /\ R2[k].type = h
  /\ \A p \in Procs : ~InFlight(p)

\* ------------------------------------------------- order ownership claims
\* C39: every order id listed in an account's activeOrders names a stored
\* order document whose accountId is that account; an order submission by a
\* second account that carries the token of an existing order does not take
\* the order from the account that created it.
C39_OrderOwnership ==
  \A a \in AccountKeys :
    \A o \in Elements(R2[a].activeOrders) :
      /\ orderKey(o) \in DOMAIN R2
      /\ R2[orderKey(o)].accountId = R2[a].accountId

\* ------------------------------------------------- throttle scope claims
RateKeys(bucket) == {k \in DOMAIN bucket : k[1] = "rate"}
\* The throttle record of the scope and the normalized email of invocation p.
OwnRecord(p) == <<"rate", loc[p].h, IdentityOf(loc[p].data.email)>>

\* C40: throttle state is kept per scope and normalized email.  The throttle
\* decides on a submission from the record of its own scope and email alone;
\* a throttle record changes only by the write of a submission of that scope
\* and email, so a submission to one form endpoint changes nothing about what
\* the throttle does for another; and the spellings of one email (case,
\* surrounding blanks) have one record within a scope.
C40_ThrottleScopesIndependent ==
  [][/\ \A p \in Procs :
          (pc[p] = "throttleRead" /\ StepOf(p))
            => LET h == loc[p].h
                   v == throttleVerdict(readJsonR2(R2, OwnRecord(p)), now,
                                        cooldownSeconds(h), maxPerDay(h))
               IN  /\ v.ok => pc'[p] = "throttleWrite"
                   /\ ~v.ok => pc'[p] = "done" /\ resp'[p].status = 429
     /\ \A k \in RateKeys(R2') :
          (k \notin DOMAIN R2 \/ R2'[k] # R2[k])
            => \E p \in Procs : pc[p] = "throttleWrite" /\ k = OwnRecord(p)
     /\ \A k \in RateKeys(R2') :
          /\ k[2] \in Handlers
          /\ k[3] \in {IdentityOf(e) : e \in EmailSpellings}
     /\ Cardinality({IdentityOf(e) : e \in EmailSpellings}) = 1
    ]_vars

\* An order sent as " A@X.co " was let through and processed at the very time
\* of the email's intake, whose record would have turned it away for the
\* cooldown; a second order, sent as "a@x.co", is at the throttle, which
\* holds the first order's record for it.
C40_Witness ==
  \E p \in Procs :
    /\ pc[p] = "throttleRead" /\ loc[p].h = "order" /\ loc[p].data.email = "a@x.co"
    /\ OwnRecord(p) \in DOMAIN R2 /\ R2[OwnRecord(p)].lastAt = now
    /\ R2[OwnRecord(p)].countToday = 1
    /\ <<"rate", "intake", IdentityOf("a@x.co")>> \in DOMAIN R2
    /\ R2[<<"rate", "intake", IdentityOf("a@x.co")>>].lastAt = now
    /\ \E k \in ReceiptKeys :
         /\ R2[k].processed /\ R2[k].type = "order"
         /\ R2[k].rawPayload.email = " A@X.co "

====
